---- MODULE Spec2Model ----
(***************************************************************************)
(* Model of the diagram store (src/src/store/useCanvasStore.ts) and of    *)
(* the node drag handlers that drive it (CanvasNode.tsx).                  *)
(*                                                                         *)
(* Store operations are operators from a store record to a store record,   *)
(* translated statement by statement; the actions apply them to the        *)
(* variables.  JavaScript arrays are sequences; uuid strings are positive  *)
(* integers drawn from a counter; null is NoId.  history / historyIndex    *)
(* keep JavaScript's 0-based index (historyIndex = -1 when empty), so the  *)
(* entry at index i is history[i + 1].                                     *)
(***************************************************************************)
EXTENDS Integers, Sequences, FiniteSets, TLC

(***************************************************************************)
(* Bounds of the model.                                                    *)
(***************************************************************************)
MaxIds == 1
MaxCommits == 1
MaxPan == 1
MaxShapes == 2
MaxDrift == 50
CapStart == 50

(***************************************************************************)
(* Program constants.                                                      *)
(***************************************************************************)
HistoryLimit == 50
DefaultWidth == 120
DefaultHeight == 80
TextWidth == 100
TextHeight == 30
MinSize == 20
\* the largest numerator of the rational that stands for an irrational
\* square root
SqrtPrecision == 1000000

NoId == 0
UnknownId == 0 - 1

(***************************************************************************)
(* JavaScript numbers that are computed (anchors, viewport): exact         *)
(* rationals n/d in lowest terms, NaN, and the null that JSON writes for   *)
(* a NaN.  Node positions and sizes are inputs and stay integers.          *)
(***************************************************************************)
Abs(i) == IF i < 0 THEN -i ELSE i

Gcd[a \in Nat, b \in Nat] == IF b = 0 THEN a ELSE Gcd[b, a % b]

NaN == [tag |-> "NaN", n |-> 0, d |-> 1]
JsonNull == [tag |-> "null", n |-> 0, d |-> 1]
Inf(sign) == [tag |-> "inf", n |-> sign, d |-> 1]

Sign(i) == IF i < 0 THEN -1 ELSE IF i > 0 THEN 1 ELSE 0

Rat(n, d) ==
  LET reduced[i \in Int, j \in Int, g \in Nat] ==
        [tag |-> "num", n |-> (IF j < 0 THEN -1 ELSE 1) * (i \div g),
         d |-> Abs(j) \div g]
  IN reduced[n, d, Gcd[Abs(n), Abs(d)]]

Num(i) == Rat(i, 1)

\* null coerces to 0 in arithmetic, as in JavaScript
NumOf(v) == IF v.tag = "null" THEN Num(0) ELSE v

\* the numbers; the operations below take their arguments by value
Number == [tag : {"num", "NaN", "inf", "null"}, n : Int, d : Int]

Add(a, b) ==
  LET sum[x \in Number, y \in Number] ==
        IF x.tag = "NaN" \/ y.tag = "NaN" THEN NaN
        ELSE IF x.tag = "inf" /\ y.tag = "inf"
             THEN (IF x.n = y.n THEN x ELSE NaN)
        ELSE IF x.tag = "inf" THEN x
        ELSE IF y.tag = "inf" THEN y
        ELSE Rat(x.n * y.d + y.n * x.d, x.d * y.d)
  IN sum[NumOf(a), NumOf(b)]

Neg(a) ==
  LET minus[x \in Number] ==
        IF x.tag = "NaN" THEN NaN
        ELSE IF x.tag = "inf" THEN Inf(-x.n)
        ELSE Rat(-x.n, x.d)
  IN minus[NumOf(a)]

Sub(a, b) == Add(a, Neg(b))

Mul(a, b) ==
  LET product[x \in Number, y \in Number] ==
        IF x.tag = "NaN" \/ y.tag = "NaN" THEN NaN
        ELSE IF x.tag = "inf" \/ y.tag = "inf"
             THEN (IF x.n = 0 \/ y.n = 0 THEN NaN
                   ELSE Inf(Sign(x.n) * Sign(y.n)))
        ELSE Rat(x.n * y.n, x.d * y.d)
  IN product[NumOf(a), NumOf(b)]

\* a / b: 0/0 is NaN, x/0 is an infinity
Div(a, b) ==
  LET quotient[x \in Number, y \in Number] ==
        IF x.tag = "NaN" \/ y.tag = "NaN" THEN NaN
        ELSE IF x.tag = "inf"
             THEN (IF y.tag = "inf" THEN NaN
                   ELSE Inf(x.n * (IF y.n < 0 THEN -1 ELSE 1)))
        ELSE IF y.tag = "inf" THEN Num(0)
        ELSE IF y.n = 0 THEN (IF x.n = 0 THEN NaN ELSE Inf(Sign(x.n)))
        ELSE Rat(x.n * y.d, x.d * y.n)
  IN quotient[NumOf(a), NumOf(b)]

\* Math.abs
MathAbs(a) ==
  LET abs[x \in Number] ==
        IF x.tag = "NaN" THEN NaN
        ELSE IF x.tag = "inf" THEN Inf(1)
        ELSE Rat(Abs(x.n), x.d)
  IN abs[NumOf(a)]

\* a > b; every comparison with NaN is false
Gt(a, b) ==
  LET greater[x \in Number, y \in Number] ==
        IF x.tag = "NaN" \/ y.tag = "NaN" THEN FALSE
        ELSE IF x.tag = "inf" THEN x.n = 1 /\ ~(y.tag = "inf" /\ y.n = 1)
        ELSE IF y.tag = "inf" THEN y.n = -1
        ELSE x.n * y.d > y.n * x.d
  IN greater[NumOf(a), NumOf(b)]

(***************************************************************************)
(* JSON.parse(JSON.stringify(v)) on the values the store holds.  A finite  *)
(* number, a string and a plain object come back equal; NaN and the        *)
(* infinities are written as null.                                         *)
(***************************************************************************)
JsonNumber(v) == IF v.tag = "num" THEN v ELSE JsonNull
JsonPoint(p) == [x |-> JsonNumber(p.x), y |-> JsonNumber(p.y)]
JsonNode(n) ==
  [id |-> n.id, type |-> n.type,
   position |-> [x |-> n.position.x, y |-> n.position.y],
   size |-> [width |-> n.size.width, height |-> n.size.height],
   text |-> n.text, fill |-> n.fill, stroke |-> n.stroke,
   strokeWidth |-> n.strokeWidth]
JsonEdge(e) ==
  [id |-> e.id, sourceNodeId |-> e.sourceNodeId,
   targetNodeId |-> e.targetNodeId,
   sourceAnchor |-> JsonPoint(e.sourceAnchor),
   targetAnchor |-> JsonPoint(e.targetAnchor)]
JsonNodes(ns) == [i \in 1..Len(ns) |-> JsonNode(ns[i])]
JsonEdges(es) == [i \in 1..Len(es) |-> JsonEdge(es[i])]

(***************************************************************************)
(* Array helpers.                                                          *)
(***************************************************************************)
Includes(seq, v) == \E i \in 1..Len(seq) : seq[i] = v
HasNode(ns, id) == \E i \in 1..Len(ns) : ns[i].id = id
\* nodes.find((n) => n.id === id), defined when HasNode(ns, id)
FindNode(ns, id) ==
  ns[CHOOSE i \in 1..Len(ns) :
       ns[i].id = id /\ \A j \in 1..(i - 1) : ns[j].id # id]
NodeIdsOf(ns) == {ns[i].id : i \in 1..Len(ns)}
EdgeIdsOf(es) == {es[i].id : i \in 1..Len(es)}
SetOf(seq) == {seq[i] : i \in 1..Len(seq)}

(***************************************************************************)
(* The store record and its initial value (useCanvasStore.ts 51-68).       *)
(***************************************************************************)
DEFAULT_NODE_SIZE == [width |-> DefaultWidth, height |-> DefaultHeight]
DEFAULT_VIEWPORT == [x |-> Num(0), y |-> Num(0), scale |-> Num(1)]

Point0 == [x |-> Num(0), y |-> Num(0)]
NoBox == [start |-> Point0, end |-> Point0, active |-> FALSE]

\* an initial store whose history already holds the empty diagram
InitialStoreSnapshotted ==
  [nodes |-> <<>>, edges |-> <<>>,
   selectedNodes |-> <<>>, selectedEdges |-> <<>>,
   viewport |-> DEFAULT_VIEWPORT,
   tool |-> "select", isConnecting |-> FALSE, connectionSource |-> NoId,
   history |-> <<[nodes |-> <<>>, edges |-> <<>>,
                  viewport |-> DEFAULT_VIEWPORT]>>,
   historyIndex |-> 0,
   isDragging |-> FALSE, isPanning |-> FALSE,
   selectionBox |-> NoBox]

InitialStore ==
  [nodes |-> <<>>, edges |-> <<>>,
   selectedNodes |-> <<>>, selectedEdges |-> <<>>,
   viewport |-> DEFAULT_VIEWPORT,
   tool |-> "select", isConnecting |-> FALSE, connectionSource |-> NoId,
   history |-> <<>>, historyIndex |-> -1,
   isDragging |-> FALSE, isPanning |-> FALSE,
   selectionBox |-> NoBox]

(***************************************************************************)
(* History operations.                                                     *)
(***************************************************************************)
\* saveHistory without the capacity check
saveHistoryNoEvict(s) ==
  LET newHistoryState == [nodes |-> JsonNodes(s.nodes),
                          edges |-> JsonEdges(s.edges),
                          viewport |-> [x |-> s.viewport.x,
                                        y |-> s.viewport.y,
                                        scale |-> s.viewport.scale]]
      newHistory == Append(SubSeq(s.history, 1, s.historyIndex + 1),
                           newHistoryState)
  IN [s EXCEPT !.history = newHistory,
               !.historyIndex = Len(newHistory) - 1]

\* saveHistory pushing onto the whole history instead of the slice
saveHistoryNoTruncate(s) ==
  LET newHistoryState == [nodes |-> JsonNodes(s.nodes),
                          edges |-> JsonEdges(s.edges),
                          viewport |-> [x |-> s.viewport.x,
                                        y |-> s.viewport.y,
                                        scale |-> s.viewport.scale]]
      pushed == Append(s.history, newHistoryState)
      newHistory == IF Len(pushed) > HistoryLimit THEN Tail(pushed)
                    ELSE pushed
  IN [s EXCEPT !.history = newHistory,
               !.historyIndex = Len(newHistory) - 1]

saveHistory(s) ==
  LET newHistoryState == [nodes |-> JsonNodes(s.nodes),
                          edges |-> JsonEdges(s.edges),
                          viewport |-> [x |-> s.viewport.x,
                                        y |-> s.viewport.y,
                                        scale |-> s.viewport.scale]]
      pushed == Append(SubSeq(s.history, 1, s.historyIndex + 1),
                       newHistoryState)
      newHistory == IF Len(pushed) > HistoryLimit THEN Tail(pushed)
                    ELSE pushed
  IN [s EXCEPT !.history = newHistory,
               !.historyIndex = Len(newHistory) - 1]

\* undo stepping the index down at the oldest entry too
undoPastOldest(s) ==
  IF s.historyIndex > 0
  THEN LET prevState == s.history[(s.historyIndex - 1) + 1]
       IN [s EXCEPT !.nodes = JsonNodes(prevState.nodes),
                    !.edges = JsonEdges(prevState.edges),
                    !.viewport = [x |-> prevState.viewport.x,
                                  y |-> prevState.viewport.y,
                                  scale |-> prevState.viewport.scale],
                    !.historyIndex = s.historyIndex - 1,
                    !.selectedNodes = <<>>,
                    !.selectedEdges = <<>>]
  ELSE IF s.historyIndex = 0 THEN [s EXCEPT !.historyIndex = -1]
  ELSE s

\* undo restoring the snapshot and keeping the selection
undoKeepsSelection(s) ==
  IF s.historyIndex > 0
  THEN LET prevState == s.history[(s.historyIndex - 1) + 1]
       IN [s EXCEPT !.nodes = JsonNodes(prevState.nodes),
                    !.edges = JsonEdges(prevState.edges),
                    !.viewport = [x |-> prevState.viewport.x,
                                  y |-> prevState.viewport.y,
                                  scale |-> prevState.viewport.scale],
                    !.historyIndex = s.historyIndex - 1]
  ELSE s

\* undo clearing the selection even when there is nothing to undo
undoAlwaysClears(s) ==
  IF s.historyIndex > 0
  THEN LET prevState == s.history[(s.historyIndex - 1) + 1]
       IN [s EXCEPT !.nodes = JsonNodes(prevState.nodes),
                    !.edges = JsonEdges(prevState.edges),
                    !.viewport = [x |-> prevState.viewport.x,
                                  y |-> prevState.viewport.y,
                                  scale |-> prevState.viewport.scale],
                    !.historyIndex = s.historyIndex - 1,
                    !.selectedNodes = <<>>,
                    !.selectedEdges = <<>>]
  ELSE [s EXCEPT !.selectedNodes = <<>>, !.selectedEdges = <<>>]

undo(s) ==
  IF s.historyIndex > 0
  THEN LET prevState == s.history[(s.historyIndex - 1) + 1]
       IN [s EXCEPT !.nodes = JsonNodes(prevState.nodes),
                    !.edges = JsonEdges(prevState.edges),
                    !.viewport = [x |-> prevState.viewport.x,
                                  y |-> prevState.viewport.y,
                                  scale |-> prevState.viewport.scale],
                    !.historyIndex = s.historyIndex - 1,
                    !.selectedNodes = <<>>,
                    !.selectedEdges = <<>>]
  ELSE s

\* a redo that moved the index and left the live diagram as it was
redoIndexOnly(s) ==
  IF s.historyIndex < Len(s.history) - 1
  THEN [s EXCEPT !.historyIndex = s.historyIndex + 1,
                 !.selectedNodes = <<>>,
                 !.selectedEdges = <<>>]
  ELSE s

redo(s) ==
  IF s.historyIndex < Len(s.history) - 1
  THEN LET nextState == s.history[(s.historyIndex + 1) + 1]
       IN [s EXCEPT !.nodes = JsonNodes(nextState.nodes),
                    !.edges = JsonEdges(nextState.edges),
                    !.viewport = [x |-> nextState.viewport.x,
                                  y |-> nextState.viewport.y,
                                  scale |-> nextState.viewport.scale],
                    !.historyIndex = s.historyIndex + 1,
                    !.selectedNodes = <<>>,
                    !.selectedEdges = <<>>]
  ELSE s

(***************************************************************************)
(* Node operations.  The id argument of addNode, addTextNode and addEdge   *)
(* is the value uuidv4() returns.                                          *)
(***************************************************************************)
\* addNode adding the new node to the selection it finds
addNodeExtendsSelection(s, id, type, position) ==
  LET node == [id |-> id, type |-> type, position |-> position,
               size |-> DEFAULT_NODE_SIZE, text |-> "New Node",
               fill |-> "#ffffff", stroke |-> "#666666", strokeWidth |-> 2]
      s1 == [s EXCEPT !.nodes = Append(s.nodes, node),
                      !.selectedNodes = Append(s.selectedNodes, id),
                      !.selectedEdges = <<>>]
  IN saveHistory(s1)

addNode(s, id, type, position) ==
  LET node == [id |-> id, type |-> type, position |-> position,
               size |-> DEFAULT_NODE_SIZE, text |-> "New Node",
               fill |-> "#ffffff", stroke |-> "#666666", strokeWidth |-> 2]
      s1 == [s EXCEPT !.nodes = Append(s.nodes, node),
                      !.selectedNodes = <<id>>,
                      !.selectedEdges = <<>>]
  IN saveHistory(s1)

addTextNode(s, id, position) ==
  LET node == [id |-> id, type |-> "text", position |-> position,
               size |-> [width |-> TextWidth, height |-> TextHeight],
               text |-> "Click to edit",
               fill |-> "transparent", stroke |-> "transparent",
               strokeWidth |-> 0]
      s1 == [s EXCEPT !.nodes = Append(s.nodes, node),
                      !.selectedNodes = <<id>>,
                      !.selectedEdges = <<>>]
  IN saveHistory(s1)

\* { ...node, ...updates }: updates is a record holding a subset of the
\* node's fields
Merge(node, updates) ==
  [f \in DOMAIN node |-> IF f \in DOMAIN updates THEN updates[f] ELSE node[f]]

\* updateNode committing a snapshot
updateNodeCommits(s, id, updates) ==
  saveHistory([s EXCEPT !.nodes = [i \in 1..Len(s.nodes) |->
                                     IF s.nodes[i].id = id
                                     THEN Merge(s.nodes[i], updates)
                                     ELSE s.nodes[i]]])

\* updateNode when the current snapshot shares its node objects with the
\* live nodes: the update shows in the snapshot too
updateNodeAliased(s, id, updates) ==
  LET ns == [i \in 1..Len(s.nodes) |->
               IF s.nodes[i].id = id
               THEN Merge(s.nodes[i], updates)
               ELSE s.nodes[i]]
  IN IF s.historyIndex >= 0
     THEN [s EXCEPT !.nodes = ns,
                    !.history[s.historyIndex + 1].nodes = ns]
     ELSE [s EXCEPT !.nodes = ns]

updateNode(s, id, updates) ==
  [s EXCEPT !.nodes = [i \in 1..Len(s.nodes) |->
                         IF s.nodes[i].id = id
                         THEN Merge(s.nodes[i], updates)
                         ELSE s.nodes[i]]]

\* deleteNode leaving the edges alone
deleteNodeKeepEdges(s, id) ==
  LET s1 == [s EXCEPT
               !.nodes = SelectSeq(s.nodes, LAMBDA node : node.id # id),
               !.selectedNodes = SelectSeq(s.selectedNodes,
                                           LAMBDA nodeId : nodeId # id)]
  IN saveHistory(s1)

\* deleteNode removing only the edges that leave the node
deleteNodeSourceOnly(s, id) ==
  LET s1 == [s EXCEPT
               !.nodes = SelectSeq(s.nodes, LAMBDA node : node.id # id),
               !.edges = SelectSeq(s.edges, LAMBDA edge :
                            edge.sourceNodeId # id),
               !.selectedNodes = SelectSeq(s.selectedNodes,
                                           LAMBDA nodeId : nodeId # id)]
  IN saveHistory(s1)

deleteNode(s, id) ==
  LET s1 == [s EXCEPT
               !.nodes = SelectSeq(s.nodes, LAMBDA node : node.id # id),
               !.edges = SelectSeq(s.edges, LAMBDA edge :
                            edge.sourceNodeId # id /\ edge.targetNodeId # id),
               !.selectedNodes = SelectSeq(s.selectedNodes,
                                           LAMBDA nodeId : nodeId # id)]
  IN saveHistory(s1)

selectNode(s, id, multiSelect) ==
  LET isSelected == Includes(s.selectedNodes, id)
  IN IF multiSelect
     THEN [s EXCEPT !.selectedNodes =
                       IF isSelected
                       THEN SelectSeq(s.selectedNodes,
                                      LAMBDA nodeId : nodeId # id)
                       ELSE Append(s.selectedNodes, id),
                    !.selectedEdges = <<>>]
     ELSE [s EXCEPT !.selectedNodes = IF isSelected THEN <<>> ELSE <<id>>,
                    !.selectedEdges = <<>>]

selectNodes(s, ids) ==
  [s EXCEPT !.selectedNodes = ids, !.selectedEdges = <<>>]

clearSelection(s) ==
  [s EXCEPT !.selectedNodes = <<>>, !.selectedEdges = <<>>]

\* deleteSelected leaving the edges of the removed nodes in place
deleteSelectedKeepsIncident(s) ==
  LET selN == s.selectedNodes
      selE == s.selectedEdges
      s1 == [s EXCEPT
               !.nodes = SelectSeq(s.nodes,
                                   LAMBDA node : ~Includes(selN, node.id)),
               !.edges = SelectSeq(s.edges,
                                   LAMBDA edge : ~Includes(selE, edge.id)),
               !.selectedNodes = <<>>,
               !.selectedEdges = <<>>]
  IN saveHistory(s1)

deleteSelected(s) ==
  LET selN == s.selectedNodes
      selE == s.selectedEdges
      s1 == [s EXCEPT
               !.nodes = SelectSeq(s.nodes,
                                   LAMBDA node : ~Includes(selN, node.id)),
               !.edges = SelectSeq(s.edges, LAMBDA edge :
                            /\ ~Includes(selE, edge.id)
                            /\ ~Includes(selN, edge.sourceNodeId)
                            /\ ~Includes(selN, edge.targetNodeId)),
               !.selectedNodes = <<>>,
               !.selectedEdges = <<>>]
  IN saveHistory(s1)

(***************************************************************************)
(* Edge operations.                                                        *)
(***************************************************************************)
\* the duplicate check in the direction of the call only
existingConnectionDirected(es, sourceNodeId, targetNodeId) ==
  \E i \in 1..Len(es) :
     es[i].sourceNodeId = sourceNodeId /\ es[i].targetNodeId = targetNodeId

existingConnection(es, sourceNodeId, targetNodeId) ==
  \E i \in 1..Len(es) :
     \/ (es[i].sourceNodeId = sourceNodeId
         /\ es[i].targetNodeId = targetNodeId)
     \/ (es[i].sourceNodeId = targetNodeId
         /\ es[i].targetNodeId = sourceNodeId)

\* position + size / 2 on each axis
CenterOf(node) ==
  [x |-> Add(Num(node.position.x), Div(Num(node.size.width), Num(2))),
   y |-> Add(Num(node.position.y), Div(Num(node.size.height), Num(2)))]

\* addEdge leaving connecting mode before it checks its arguments
addEdgeExitsFirst(s, id, sourceNodeId, targetNodeId) ==
  LET s0 == [s EXCEPT !.isConnecting = FALSE,
                      !.connectionSource = NoId,
                      !.tool = "select"]
  IN IF ~HasNode(s.nodes, sourceNodeId) \/ ~HasNode(s.nodes, targetNodeId)
     THEN s0
     ELSE IF existingConnection(s.edges, sourceNodeId, targetNodeId)
     THEN s0
     ELSE LET sourceNode == FindNode(s.nodes, sourceNodeId)
              targetNode == FindNode(s.nodes, targetNodeId)
              edge == [id |-> id,
                       sourceNodeId |-> sourceNodeId,
                       targetNodeId |-> targetNodeId,
                       sourceAnchor |-> CenterOf(sourceNode),
                       targetAnchor |-> CenterOf(targetNode)]
          IN saveHistory([s0 EXCEPT !.edges = Append(s.edges, edge)])

addEdge(s, id, sourceNodeId, targetNodeId) ==
  IF ~HasNode(s.nodes, sourceNodeId) \/ ~HasNode(s.nodes, targetNodeId)
  THEN s
  ELSE IF existingConnection(s.edges, sourceNodeId, targetNodeId)
  THEN s
  ELSE LET sourceNode == FindNode(s.nodes, sourceNodeId)
           targetNode == FindNode(s.nodes, targetNodeId)
           edge == [id |-> id,
                    sourceNodeId |-> sourceNodeId,
                    targetNodeId |-> targetNodeId,
                    sourceAnchor |-> CenterOf(sourceNode),
                    targetAnchor |-> CenterOf(targetNode)]
           s1 == [s EXCEPT !.edges = Append(s.edges, edge),
                           !.isConnecting = FALSE,
                           !.connectionSource = NoId,
                           !.tool = "select"]
       IN saveHistory(s1)

deleteEdge(s, id) ==
  LET s1 == [s EXCEPT
               !.edges = SelectSeq(s.edges, LAMBDA edge : edge.id # id),
               !.selectedEdges = SelectSeq(s.selectedEdges,
                                           LAMBDA edgeId : edgeId # id)]
  IN saveHistory(s1)

updateEdgeAnchors(s, edgeId, sourceAnchor, targetAnchor) ==
  [s EXCEPT !.edges = [i \in 1..Len(s.edges) |->
                         IF s.edges[i].id = edgeId
                         THEN [s.edges[i] EXCEPT
                                 !.sourceAnchor = sourceAnchor,
                                 !.targetAnchor = targetAnchor]
                         ELSE s.edges[i]]]

(***************************************************************************)
(* Canvas operations.                                                      *)
(***************************************************************************)
setTool(s, t) ==
  IF t = "line" THEN [s EXCEPT !.tool = t]
  ELSE [s EXCEPT !.tool = t, !.isConnecting = FALSE,
                 !.connectionSource = NoId]

\* startConnection leaving the tool as it finds it
startConnectionKeepsTool(s, nodeId) ==
  [s EXCEPT !.isConnecting = TRUE, !.connectionSource = nodeId]

startConnection(s, nodeId) ==
  [s EXCEPT !.isConnecting = TRUE, !.connectionSource = nodeId,
            !.tool = "line"]

\* endConnection drawing the edge from the clicked node to the source
endConnectionReversed(s, id, nodeId) ==
  LET s1 == IF s.connectionSource # NoId /\ s.connectionSource # nodeId
            THEN addEdge(s, id, nodeId, s.connectionSource)
            ELSE s
  IN [s1 EXCEPT !.isConnecting = FALSE, !.connectionSource = NoId,
                !.tool = "select"]

\* id is the id an edge created by the call gets
endConnection(s, id, nodeId) ==
  LET s1 == IF s.connectionSource # NoId /\ s.connectionSource # nodeId
            THEN addEdge(s, id, s.connectionSource, nodeId)
            ELSE s
  IN [s1 EXCEPT !.isConnecting = FALSE, !.connectionSource = NoId,
                !.tool = "select"]

cancelConnection(s) ==
  [s EXCEPT !.isConnecting = FALSE, !.connectionSource = NoId,
            !.tool = "select"]

\* a click that ends the connection on whatever node it lands
handleClickEndsAlways(s, id, nodeId, multiSelect) ==
  IF s.tool = "line"
  THEN IF s.isConnecting /\ s.connectionSource # NoId
       THEN endConnection(s, id, nodeId)
       ELSE startConnection(s, nodeId)
  ELSE selectNode(s, nodeId, multiSelect)

\* CanvasNode's click handler on the node nodeId; id is the id an edge
\* created by the click gets, multiSelect is the ctrl or meta key
handleClick(s, id, nodeId, multiSelect) ==
  IF s.tool = "line"
  THEN IF s.isConnecting /\ s.connectionSource # NoId
       THEN IF s.connectionSource # nodeId
            THEN IF ~existingConnection(s.edges, s.connectionSource, nodeId)
                 THEN endConnection(s, id, nodeId)
                 ELSE s
            ELSE s
       ELSE startConnection(s, nodeId)
  ELSE selectNode(s, nodeId, multiSelect)

\* the canvas's keydown handler: Delete and Backspace delete the selection,
\* ctrl/meta-z undoes, with shift redoes, every other key does nothing
handleKeyDown(s, key, ctrlOrMeta, shift) ==
  IF key \in {"Delete", "Backspace"} THEN deleteSelected(s)
  ELSE IF ctrlOrMeta /\ key = "z"
       THEN (IF shift THEN redo(s) ELSE undo(s))
       ELSE s

\* clear that pushes no snapshot
clearNoCommit(s) ==
  [s EXCEPT !.nodes = <<>>, !.edges = <<>>,
            !.selectedNodes = <<>>, !.selectedEdges = <<>>,
            !.viewport = DEFAULT_VIEWPORT]

clear(s) ==
  saveHistory([s EXCEPT !.nodes = <<>>, !.edges = <<>>,
                        !.selectedNodes = <<>>, !.selectedEdges = <<>>,
                        !.viewport = DEFAULT_VIEWPORT])

loadCanvas(s, ns, es) ==
  saveHistory([s EXCEPT !.nodes = JsonNodes(ns), !.edges = JsonEdges(es),
                        !.selectedNodes = <<>>, !.selectedEdges = <<>>,
                        !.viewport = DEFAULT_VIEWPORT])

\* setViewport takes a partial viewport: the fields it names replace the
\* viewport's, the others stay
setViewport(s, v) ==
  [s EXCEPT !.viewport = [x |-> IF "x" \in DOMAIN v THEN v.x
                                ELSE s.viewport.x,
                          y |-> IF "y" \in DOMAIN v THEN v.y
                                ELSE s.viewport.y,
                          scale |-> IF "scale" \in DOMAIN v THEN v.scale
                                    ELSE s.viewport.scale]]

setDragging(s, b) == [s EXCEPT !.isDragging = b]

setPanning(s, b) == [s EXCEPT !.isPanning = b]

\* Math.max and Math.min of two numbers: NaN if either is NaN
MathMax(a, b) ==
  LET max[x \in Number, y \in Number] ==
        IF x.tag = "NaN" \/ y.tag = "NaN" THEN NaN
        ELSE IF Gt(x, y) THEN x ELSE y
  IN max[NumOf(a), NumOf(b)]

MathMin(a, b) ==
  LET min[x \in Number, y \in Number] ==
        IF x.tag = "NaN" \/ y.tag = "NaN" THEN NaN
        ELSE IF Gt(x, y) THEN y ELSE x
  IN min[NumOf(a), NumOf(b)]

MinScale == Rat(1, 10)
MaxScale == Num(3)

\* zoom clamping the scale from above only
zoomNoFloor(s, delta, center) ==
  LET newScale == MathMin(MaxScale, Add(s.viewport.scale, delta))
      scaleDiff == Sub(newScale, s.viewport.scale)
  IN [s EXCEPT !.viewport = [x |-> Sub(s.viewport.x,
                                       Mul(center.x, scaleDiff)),
                             y |-> Sub(s.viewport.y,
                                       Mul(center.y, scaleDiff)),
                             scale |-> newScale]]

zoom(s, delta, center) ==
  LET newScale == MathMax(MinScale,
                          MathMin(MaxScale, Add(s.viewport.scale, delta)))
      scaleDiff == Sub(newScale, s.viewport.scale)
      newX == Sub(s.viewport.x, Mul(center.x, scaleDiff))
      newY == Sub(s.viewport.y, Mul(center.y, scaleDiff))
  IN [s EXCEPT !.viewport = [x |-> newX, y |-> newY, scale |-> newScale]]

\* pan that also puts the scale back to 1
panResetsScale(s, delta) ==
  [s EXCEPT !.viewport = [x |-> Add(s.viewport.x, delta.x),
                          y |-> Add(s.viewport.y, delta.y),
                          scale |-> Num(1)]]

pan(s, delta) ==
  [s EXCEPT !.viewport = [x |-> Add(s.viewport.x, delta.x),
                          y |-> Add(s.viewport.y, delta.y),
                          scale |-> s.viewport.scale]]

(***************************************************************************)
(* CanvasNode drag handlers.                                               *)
(***************************************************************************)
getNodeAnchor(fromNode, toNode) ==
  LET fromCenter == CenterOf(fromNode)
      toCenter == CenterOf(toNode)
      dx == Sub(toCenter.x, fromCenter.x)
      dy == Sub(toCenter.y, fromCenter.y)
      halfWidth == Div(Num(fromNode.size.width), Num(2))
      halfHeight == Div(Num(fromNode.size.height), Num(2))
  IN IF Gt(MathAbs(dx), MathAbs(dy))
     THEN [x |-> Add(fromCenter.x,
                     IF Gt(dx, Num(0)) THEN halfWidth ELSE Neg(halfWidth)),
           y |-> Add(fromCenter.y, Div(Mul(dy, halfWidth), MathAbs(dx)))]
     ELSE [x |-> Add(fromCenter.x, Div(Mul(dx, halfHeight), MathAbs(dy))),
           y |-> Add(fromCenter.y,
                     IF Gt(dy, Num(0)) THEN halfHeight ELSE Neg(halfHeight))]

\* connectedEdges.forEach(...) of handleDragMove over edges[k..]: s is the
\* store as the updates accumulate, moved is { ...node, position }
RECURSIVE updateConnectedEdges(_, _, _, _)
updateConnectedEdges(s, edges, moved, k) ==
  IF k > Len(edges) THEN s
  ELSE LET edge == edges[k]
       IN IF edge.sourceNodeId # moved.id /\ edge.targetNodeId # moved.id
          THEN updateConnectedEdges(s, edges, moved, k + 1)
          ELSE LET srcOk == edge.sourceNodeId = moved.id
                            \/ HasNode(s.nodes, edge.sourceNodeId)
                   tgtOk == edge.targetNodeId = moved.id
                            \/ HasNode(s.nodes, edge.targetNodeId)
                   sourceNode == IF edge.sourceNodeId = moved.id THEN moved
                                 ELSE FindNode(s.nodes, edge.sourceNodeId)
                   targetNode == IF edge.targetNodeId = moved.id THEN moved
                                 ELSE FindNode(s.nodes, edge.targetNodeId)
               IN IF srcOk /\ tgtOk
                  THEN updateConnectedEdges(
                         updateEdgeAnchors(s, edge.id,
                           getNodeAnchor(sourceNode, targetNode),
                           getNodeAnchor(targetNode, sourceNode)),
                         edges, moved, k + 1)
                  ELSE updateConnectedEdges(s, edges, moved, k + 1)

\* node is the rendered node (the store's node of that id), edges the
\* rendered edges
handleDragMove(s, node, newPosition) ==
  LET s1 == updateNode(s, node.id, [position |-> newPosition])
      moved == [node EXCEPT !.position = newPosition]
  IN updateConnectedEdges(s1, s.edges, moved, 1)

handleDragStart(s, node) ==
  IF ~Includes(s.selectedNodes, node.id) THEN selectNode(s, node.id, FALSE)
  ELSE s

\* a release that pushes no snapshot
handleDragEndNoCommit(s) == s

handleDragEnd(s) == saveHistory(s)

\* ResizeHandles: the size a drag of handle index to newPos asks for
\* (onDragMove); newPosition is computed by the component and never stored
Max(a, b) == IF a > b THEN a ELSE b

resizeFromHandle(node, index, newPos) ==
  LET originalPos == node.position
      originalSize == node.size
      fromRight == newPos.x - originalPos.x
      fromLeft == originalPos.x + originalSize.width - newPos.x
      fromBottom == newPos.y - originalPos.y
      fromTop == originalPos.y + originalSize.height - newPos.y
      width == CASE index \in {0, 3, 7} -> fromLeft
                 [] index \in {1, 2, 5} -> fromRight
                 [] OTHER -> originalSize.width
      height == CASE index \in {0, 1, 4} -> fromTop
                  [] index \in {2, 3, 6} -> fromBottom
                  [] OTHER -> originalSize.height
  IN [width |-> Max(MinSize, width), height |-> Max(MinSize, height)]

handleResize(s, node, newSize) == updateNode(s, node.id, [size |-> newSize])

(***************************************************************************)
(* The geometry engine (src/unnamed/part_006).  The store and the drag     *)
(* handlers do not call it.  The ellipse case goes through atan2, cos and  *)
(* sin: the cosine of atan2(dy, dx) is dx / sqrt(dx^2 + dy^2) and its      *)
(* sine is dy / sqrt(dx^2 + dy^2).  The square root of a rational whose    *)
(* numerator and denominator are squares is exact; any other is the last   *)
(* continued-fraction convergent with a numerator up to SqrtPrecision,     *)
(* which is within 1 / q^2 of the root (q its denominator), where the      *)
(* program holds the nearest double.                                       *)
(***************************************************************************)
\* a === b on numbers
EqNum(a, b) ==
  LET same[x \in Number, y \in Number] ==
        IF x.tag = "NaN" \/ y.tag = "NaN" THEN FALSE ELSE x = y
  IN same[NumOf(a), NumOf(b)]

\* a <= b
Le(a, b) ==
  LET atMost[x \in Number, y \in Number] ==
        IF x.tag = "NaN" \/ y.tag = "NaN" THEN FALSE ELSE ~Gt(x, y)
  IN atMost[NumOf(a), NumOf(b)]

\* Math.abs(a) < 1e-10: among the rationals the model can hold (32-bit
\* denominators) only 0 is that small
BelowEpsilon(a) ==
  LET x == NumOf(a)
  IN x.tag = "num" /\ x.n = 0

startSelectionBox(s, point) ==
  [s EXCEPT !.selectionBox = [start |-> point, end |-> point, active |-> TRUE]]

updateSelectionBox(s, point) ==
  [s EXCEPT !.selectionBox = IF s.selectionBox # NoBox
                               THEN [s.selectionBox EXCEPT !.end = point]
                               ELSE NoBox]

Ge(a, b) == Le(b, a)

\* the filter of endSelectionBox with strict comparisons
InsideBoxStrict(node, box) ==
  LET minX == MathMin(box.start.x, box.end.x)
      maxX == MathMax(box.start.x, box.end.x)
      minY == MathMin(box.start.y, box.end.y)
      maxY == MathMax(box.start.y, box.end.y)
      nodeMinX == Num(node.position.x)
      nodeMaxX == Add(Num(node.position.x), Num(node.size.width))
      nodeMinY == Num(node.position.y)
      nodeMaxY == Add(Num(node.position.y), Num(node.size.height))
  IN /\ Gt(nodeMaxX, minX)
     /\ Gt(maxX, nodeMinX)
     /\ Gt(nodeMaxY, minY)
     /\ Gt(maxY, nodeMinY)

InsideBox(node, box) ==
  LET minX == MathMin(box.start.x, box.end.x)
      maxX == MathMax(box.start.x, box.end.x)
      minY == MathMin(box.start.y, box.end.y)
      maxY == MathMax(box.start.y, box.end.y)
      nodeMinX == Num(node.position.x)
      nodeMaxX == Add(Num(node.position.x), Num(node.size.width))
      nodeMinY == Num(node.position.y)
      nodeMaxY == Add(Num(node.position.y), Num(node.size.height))
  IN /\ Ge(nodeMaxX, minX)
     /\ Le(nodeMinX, maxX)
     /\ Ge(nodeMaxY, minY)
     /\ Le(nodeMinY, maxY)

endSelectionBox(s) ==
  IF s.selectionBox # NoBox
    THEN [s EXCEPT !.selectedNodes =
                     LET inside == SelectSeq(s.nodes,
                                             LAMBDA node :
                                               InsideBox(node, s.selectionBox))
                     IN [i \in 1..Len(inside) |-> inside[i].id],
                   !.selectedEdges = <<>>,
                   !.selectionBox = NoBox]
    ELSE s

\* Canvas.tsx: the right button pressed on the stage starts a pan in the
\* select tool; a button released ends the pan and an active selection box
handleStageMouseDownRight(s) ==
  IF s.tool = "select" THEN setPanning(s, TRUE) ELSE s

handleStageMouseUp(s) ==
  IF s.selectionBox.active THEN endSelectionBox(setPanning(s, FALSE))
  ELSE setPanning(s, FALSE)

getNodeCenter(node) ==
  [x |-> Add(Num(node.position.x), Div(Num(node.size.width), Num(2))),
   y |-> Add(Num(node.position.y), Div(Num(node.size.height), Num(2)))]

getNodeBounds(node) ==
  [left |-> Num(node.position.x),
   top |-> Num(node.position.y),
   right |-> Num(node.position.x + node.size.width),
   bottom |-> Num(node.position.y + node.size.height)]

getRectangleIntersection(node, externalPoint) ==
  LET center == getNodeCenter(node)
      bounds == getNodeBounds(node)
      dx == Sub(externalPoint.x, center.x)
      dy == Sub(externalPoint.y, center.y)
      halfWidth == Div(Num(node.size.width), Num(2))
      halfHeight == Div(Num(node.size.height), Num(2))
      slopeToEdgeX == Div(halfHeight, halfWidth)
      slope == MathAbs(Div(dy, dx))
  IN IF Le(slope, slopeToEdgeX)
     THEN [x |-> IF Gt(dx, Num(0)) THEN bounds.right ELSE bounds.left,
           y |-> Add(center.y, Div(Mul(dy, halfWidth), MathAbs(dx)))]
     ELSE [x |-> Add(center.x, Div(Mul(dx, halfHeight), MathAbs(dy))),
           y |-> IF Gt(dy, Num(0)) THEN bounds.bottom ELSE bounds.top]

\* the largest i in lo..hi with i * i <= n, for a natural number n
IsqrtIn[n \in Nat, lo \in Nat, hi \in Nat] ==
  IF lo >= hi THEN lo
  ELSE IF ((lo + hi + 1) \div 2) * ((lo + hi + 1) \div 2) <= n
       THEN IsqrtIn[n, (lo + hi + 1) \div 2, hi]
       ELSE IsqrtIn[n, lo, ((lo + hi + 1) \div 2) - 1]

Isqrt(n) == IsqrtIn[n, 0, IF n < 46340 THEN n ELSE 46340]

\* the continued fraction of sqrt(n), n not a square: a0 is Isqrt(n); m, d
\* and a are the terms of the expansion; p1/q1 and p/q are the last two
\* convergents.  The value is the last convergent whose numerator is at
\* most SqrtPrecision.
SqrtConvergent[n \in Nat, a0 \in Nat, m \in Nat, d \in Nat, a \in Nat,
               p1 \in Nat, q1 \in Nat, p \in Nat, q \in Nat] ==
  LET m2 == d * a - m
      d2 == (n - m2 * m2) \div d
      a2 == (a0 + m2) \div d2
      p2 == a2 * p + p1
      q2 == a2 * q + q1
  IN IF p2 > SqrtPrecision THEN Rat(p, q)
     ELSE SqrtConvergent[n, a0, m2, d2, a2, p, q, p2, q2]

\* Math.sqrt of a finite number that is not negative
MathSqrt(a) ==
  LET x == NumOf(a)
      n == x.n * x.d
      a0 == Isqrt(n)
  IN IF x.tag # "num" THEN x
     ELSE IF a0 * a0 = n THEN Rat(a0, x.d)
     ELSE Div(SqrtConvergent[n, a0, 0, 1, a0, 1, 0, a0, 1], Num(x.d))

\* Math.atan2(dy, dx) for finite dx and dy, not both 0: the angle is held
\* as its cosine and its sine, which Math.cos and Math.sin give back
MathAtan2(dy, dx) ==
  LET r == MathSqrt(Add(Mul(dx, dx), Mul(dy, dy)))
  IN [cos |-> Div(dx, r), sin |-> Div(dy, r)]

MathCos(angle) == angle.cos
MathSin(angle) == angle.sin

getEllipseIntersection(node, externalPoint) ==
  LET center == getNodeCenter(node)
      a == Div(Num(node.size.width), Num(2))
      b == Div(Num(node.size.height), Num(2))
      dx == Sub(externalPoint.x, center.x)
      dy == Sub(externalPoint.y, center.y)
      angle == MathAtan2(dy, dx)
  IN IF EqNum(dx, Num(0)) /\ EqNum(dy, Num(0)) THEN center
     ELSE [x |-> Add(center.x, Mul(a, MathCos(angle))),
           y |-> Add(center.y, Mul(b, MathSin(angle)))]

getLineIntersection(p1, p2, p3, p4) ==
  LET denominator == Sub(Mul(Sub(p1.x, p2.x), Sub(p3.y, p4.y)),
                         Mul(Sub(p1.y, p2.y), Sub(p3.x, p4.x)))
      t == Div(Sub(Mul(Sub(p1.x, p3.x), Sub(p3.y, p4.y)),
                   Mul(Sub(p1.y, p3.y), Sub(p3.x, p4.x))),
               denominator)
  IN IF BelowEpsilon(denominator) THEN p1
     ELSE [x |-> Add(p1.x, Mul(t, Sub(p2.x, p1.x))),
           y |-> Add(p1.y, Mul(t, Sub(p2.y, p1.y)))]

\* both branches pass edge[0] and edge[2] of their vertex triple: top and
\* bottom, or left and right
getDiamondIntersection(node, externalPoint) ==
  LET center == getNodeCenter(node)
      halfWidth == Div(Num(node.size.width), Num(2))
      halfHeight == Div(Num(node.size.height), Num(2))
      dx == Sub(externalPoint.x, center.x)
      dy == Sub(externalPoint.y, center.y)
      top == [x |-> center.x, y |-> Sub(center.y, halfHeight)]
      right == [x |-> Add(center.x, halfWidth), y |-> center.y]
      bottom == [x |-> center.x, y |-> Add(center.y, halfHeight)]
      left == [x |-> Sub(center.x, halfWidth), y |-> center.y]
      slope == Div(dy, dx)
      diamondSlope == Div(halfHeight, halfWidth)
  IN IF EqNum(dx, Num(0)) /\ EqNum(dy, Num(0)) THEN center
     ELSE IF Le(MathAbs(slope), diamondSlope)
          THEN getLineIntersection(center, externalPoint, top, bottom)
          ELSE getLineIntersection(center, externalPoint, left, right)

getNodeEdgeIntersection(node, externalPoint) ==
  LET center == getNodeCenter(node)
      dx == Sub(externalPoint.x, center.x)
      dy == Sub(externalPoint.y, center.y)
  IN IF EqNum(MathAbs(dx), Num(0)) /\ EqNum(MathAbs(dy), Num(0)) THEN center
     ELSE CASE node.type = "ellipse" ->
                 getEllipseIntersection(node, externalPoint)
            [] node.type = "diamond" ->
                 getDiamondIntersection(node, externalPoint)
            [] OTHER ->
                 getRectangleIntersection(node, externalPoint)

getConnectionPoint(fromNode, toNode) ==
  [source |-> getNodeEdgeIntersection(fromNode, getNodeCenter(toNode)),
   target |-> getNodeEdgeIntersection(toNode, getNodeCenter(fromNode))]

(***************************************************************************)
(* State.  The first thirteen variables are the store's fields; nextId is  *)
(* the uuid generator; dragNode is the node Konva is dragging (NoId when   *)
(* none), resizeNode the node whose resize handle Konva is dragging (NoId  *)
(* when none).  fresh and commits count the ids drawn and the snapshots pushed  *)
(* in this behaviour, op records the last operation and its argument, and  *)
(* rt follows a commit / undo / redo sequence: these four are              *)
(* observations, no operation reads them.                                  *)
(***************************************************************************)
VARIABLES nodes, edges, selectedNodes, selectedEdges, viewport, tool,
          isConnecting, connectionSource, history, historyIndex,
          isDragging, isPanning, selectionBox,
          nextId, dragNode, resizeNode, fresh, commits, op, rt

storeVars == <<nodes, edges, selectedNodes, selectedEdges, viewport, tool,
               isConnecting, connectionSource, history, historyIndex,
               isDragging, isPanning, selectionBox>>
vars == <<nodes, edges, selectedNodes, selectedEdges, viewport, tool,
          isConnecting, connectionSource, history, historyIndex,
          isDragging, isPanning, selectionBox,
          nextId, dragNode, resizeNode, fresh, commits, op, rt>>

Store ==
  [nodes |-> nodes, edges |-> edges,
   selectedNodes |-> selectedNodes, selectedEdges |-> selectedEdges,
   viewport |-> viewport,
   tool |-> tool, isConnecting |-> isConnecting,
   connectionSource |-> connectionSource,
   history |-> history, historyIndex |-> historyIndex,
   isDragging |-> isDragging, isPanning |-> isPanning,
   selectionBox |-> selectionBox]

SetStore(s) ==
  /\ nodes' = s.nodes
  /\ edges' = s.edges
  /\ selectedNodes' = s.selectedNodes
  /\ selectedEdges' = s.selectedEdges
  /\ viewport' = s.viewport
  /\ tool' = s.tool
  /\ isConnecting' = s.isConnecting
  /\ connectionSource' = s.connectionSource
  /\ history' = s.history
  /\ historyIndex' = s.historyIndex
  /\ isDragging' = s.isDragging
  /\ isPanning' = s.isPanning
  /\ selectionBox' = s.selectionBox

InitOf(s) ==
  /\ nodes = s.nodes
  /\ edges = s.edges
  /\ selectedNodes = s.selectedNodes
  /\ selectedEdges = s.selectedEdges
  /\ viewport = s.viewport
  /\ tool = s.tool
  /\ isConnecting = s.isConnecting
  /\ connectionSource = s.connectionSource
  /\ history = s.history
  /\ historyIndex = s.historyIndex
  /\ isDragging = s.isDragging
  /\ isPanning = s.isPanning
  /\ selectionBox = s.selectionBox

\* what a history snapshot covers, with the index
View(s) == [nodes |-> s.nodes, edges |-> s.edges, viewport |-> s.viewport,
            historyIndex |-> s.historyIndex]
NoView == View(InitialStore)

Op(name, a, b, committed) ==
  [name |-> name, a |-> a, b |-> b, committed |-> committed]

\* a step that pushed a snapshot
Commit(s, name, a, b) ==
  /\ commits < MaxCommits
  /\ SetStore(s)
  /\ commits' = commits + 1
  /\ op' = Op(name, a, b, TRUE)
  /\ rt' = [phase |-> "commit", S |-> View(s)]

\* a step that pushed none
NoCommit(s, name, a, b) ==
  /\ SetStore(s)
  /\ commits' = commits
  /\ op' = Op(name, a, b, FALSE)
  /\ rt' = [phase |-> "none", S |-> NoView]

\* a step of updateNode or updateEdgeAnchors, which push no snapshot: when
\* it changes the store right after a commit, or after such a change, the
\* ghost record keeps the view that commit left
Uncommitted(s, name, a, b) ==
  /\ SetStore(s)
  /\ commits' = commits
  /\ op' = Op(name, a, b, FALSE)
  /\ rt' = IF rt.phase = "edited"
           THEN rt
           ELSE IF rt.phase = "commit" /\ View(s) # View(Store)
           THEN [rt EXCEPT !.phase = "edited"]
           ELSE [phase |-> "none", S |-> NoView]

(***************************************************************************)
(* Inputs.                                                                 *)
(***************************************************************************)
P1 == [x |-> 100, y |-> 100]
P2 == [x |-> 300, y |-> 200]
Positions == {P1, P2}
SmallSize == [width |-> 5, height |-> 5]
Updates == {[size |-> SmallSize]}
PanDelta == [x |-> Num(10), y |-> Num(0)]

\* keys pressed on the canvas
Keys == <<"Delete", "Backspace", "z", "Escape">>

\* positions and sizes given to the session's diamond, and the external
\* points the geometry engine is asked about: a grid around both nodes, the
\* diamond's default center (360, 240) among them
DiamondPositions == {P2, [x |-> 0, y |-> 0]}
DiamondSizes == {DEFAULT_NODE_SIZE, [width |-> 100, height |-> 100],
                 [width |-> 40, height |-> 60]}
GridX == <<-100, 160, 360, 600>>
GridY == <<-50, 240, 250, 500>>
ExternalPoints ==
  [k \in 1..(Len(GridX) * Len(GridY)) |->
     [x |-> Num(GridX[((k - 1) % Len(GridX)) + 1]),
      y |-> Num(GridY[((k - 1) \div Len(GridX)) + 1])]]

\* the shapes the toolbar adds: each of its three shape buttons calls
\* addNode with the shape's type and the position (100, 100)
ShapeInputs ==
  << [type |-> "rectangle", position |-> P1],
     [type |-> "ellipse", position |-> P1],
     [type |-> "diamond", position |-> P1] >>

\* corners of selection boxes, in world coordinates: clear of the session's
\* nodes, just short of the first node's corner, on it, inside the first
\* node, inside the second, and beyond both
BoxPoints ==
  << [x |-> Num(0), y |-> Num(0)],
     [x |-> Num(99), y |-> Num(99)],
     [x |-> Num(100), y |-> Num(100)],
     [x |-> Num(150), y |-> Num(150)],
     [x |-> Num(350), y |-> Num(250)],
     [x |-> Num(500), y |-> Num(300)] >>

\* the index of a box corner among BoxPoints, 0 when there is no box
CornerIndex(box, point) ==
  IF box = NoBox THEN 0 ELSE CHOOSE k \in DOMAIN BoxPoints : BoxPoints[k] = point

\* zoom steps (a unit or half a unit in or out, reaching both limits) and the
\* pointer positions zoomed about
\* the wheel's steps of a tenth up and down, and whole steps given to the
\* store's zoom
ZoomDeltas == <<Rat(1, 10), Rat(-1, 10), Num(1), Num(-1)>>
\* viewports given to setViewport, the second with a scale beyond the
\* zoom's upper limit
Viewports == <<[x |-> Num(5), y |-> Num(5), scale |-> Num(2)],
               [x |-> Num(0), y |-> Num(0), scale |-> Num(5)]>>
Pivots == <<[x |-> Num(100), y |-> Num(100)], [x |-> Num(200), y |-> Num(100)]>>

\* ids passed to the operations: those present, and one the generator
\* never returns
NodeArgs == NodeIdsOf(nodes) \cup {UnknownId}
EdgeArgs == EdgeIdsOf(edges) \cup {UnknownId}
UpdateArgs == {1, UnknownId}

\* the resize handle tried (bottom-right), pointer positions relative to
\* the node's corner, and anchors passed to updateEdgeAnchors
HandleIndexes == {2}
\* the tools of the toolbar; setTool's ghost record holds the index
Tools == <<"select", "rectangle", "ellipse", "diamond", "text", "line">>
PointerOffsets == {[x |-> 10, y |-> 10], [x |-> 100, y |-> 100]}
AnchorA == [x |-> Num(0), y |-> Num(0)]
AnchorB == [x |-> Num(10), y |-> Num(10)]

(***************************************************************************)
(* A scripted session: the operations below, applied in order from the     *)
(* initial store through the operators above.  Behaviours start from the   *)
(* initial store or from the store this session has reached after a        *)
(* prefix of it.                                                           *)
(***************************************************************************)
Script ==
  << [op |-> "addNode", type |-> "rectangle", position |-> P1],
     [op |-> "addNode", type |-> "diamond", position |-> P2],
     [op |-> "addEdge", source |-> 1, target |-> 2],
     [op |-> "addTextNode", position |-> P1],
     [op |-> "addEdge", source |-> 2, target |-> 4] >>

\* r is [store, nextId]
Apply(r, c) ==
  CASE c.op = "addNode" ->
         [store |-> addNode(r.store, r.nextId, c.type, c.position),
          nextId |-> r.nextId + 1]
    [] c.op = "addTextNode" ->
         [store |-> addTextNode(r.store, r.nextId, c.position),
          nextId |-> r.nextId + 1]
    [] c.op = "addEdge" ->
         [store |-> addEdge(r.store, r.nextId, c.source, c.target),
          nextId |-> r.nextId + 1]
    [] c.op = "drag" ->
         [store |-> handleDragEnd(
                      handleDragMove(
                        handleDragStart(r.store,
                                        FindNode(r.store.nodes, c.id)),
                        FindNode(r.store.nodes, c.id), c.position)),
          nextId |-> r.nextId]

\* script[lo..hi] applied to r in order; the range is split in halves
\* and the first half's result is computed before the second starts
RECURSIVE Run(_, _, _, _)
Run(r, script, lo, hi) ==
  IF lo > hi THEN r
  ELSE IF lo = hi THEN Apply(r, script[lo])
  ELSE LET mid == (lo + hi) \div 2
           half == Run(r, script, lo, mid)
       IN IF half.nextId >= 1 THEN Run(half, script, mid + 1, hi) ELSE r

Replay(script, k) ==
  Run([store |-> InitialStore, nextId |-> 1], script, 1, k)

\* the session after its first edge
Session == Replay(Script, 3)

\* the same session with an ellipse in the diamond's place
EllipseScript ==
  << [op |-> "addNode", type |-> "rectangle", position |-> P1],
     [op |-> "addNode", type |-> "ellipse", position |-> P2],
     [op |-> "addEdge", source |-> 1, target |-> 2] >>

EllipseSession == Replay(EllipseScript, 3)

\* the whole session's diagram saved to a file and opened again
Saved == Replay(Script, Len(Script))
Opened == [store |-> loadCanvas(InitialStore, Saved.store.nodes,
                                Saved.store.edges),
           nextId |-> Saved.nextId]

Starts == {[store |-> InitialStore, nextId |-> 1], Session, Opened}

\* diagrams given to loadCanvas: the session's first node alone, and the
\* whole saved session
Diagrams ==
  << [nodes |-> <<Session.store.nodes[1]>>, edges |-> <<>>],
     [nodes |-> Saved.store.nodes, edges |-> Saved.store.edges] >>

(***************************************************************************)
(* Actions: one per store operation or handler.                            *)
(***************************************************************************)
AddNode ==
  \E type \in {"rectangle"}, position \in {P1} :
     /\ fresh < MaxIds
     /\ Commit(addNode(Store, nextId, type, position), "addNode", nextId, 0)
     /\ nextId' = nextId + 1
     /\ fresh' = fresh + 1
     /\ UNCHANGED <<dragNode, resizeNode>>

\* addNode with each of the toolbar's shapes, up to MaxShapes new nodes; the
\* ghost record holds the new id and the index of the input
AddShape ==
  \E k \in DOMAIN ShapeInputs :
     /\ fresh < MaxShapes
     /\ SetStore(addNode(Store, nextId, ShapeInputs[k].type,
                         ShapeInputs[k].position))
     /\ commits' = commits + 1
     /\ op' = Op("addNode", nextId, k, TRUE)
     /\ rt' = [phase |-> "commit",
               S |-> View(addNode(Store, nextId, ShapeInputs[k].type,
                                  ShapeInputs[k].position))]
     /\ nextId' = nextId + 1
     /\ fresh' = fresh + 1
     /\ UNCHANGED <<dragNode, resizeNode>>

AddTextNode ==
  \E position \in {P1} :
     /\ fresh < MaxIds
     /\ Commit(addTextNode(Store, nextId, position), "addTextNode", nextId, 0)
     /\ nextId' = nextId + 1
     /\ fresh' = fresh + 1
     /\ UNCHANGED <<dragNode, resizeNode>>

UpdateNode ==
  \E id \in UpdateArgs, updates \in Updates :
     /\ Uncommitted(updateNode(Store, id, updates), "updateNode", id, 0)
     /\ UNCHANGED <<nextId, fresh, dragNode, resizeNode>>

DeleteNode ==
  \E id \in NodeArgs :
     /\ Commit(deleteNode(Store, id), "deleteNode", id, 0)
     /\ UNCHANGED <<nextId, fresh, dragNode, resizeNode>>

SelectNode ==
  \E id \in NodeArgs, multiSelect \in BOOLEAN :
     /\ NoCommit(selectNode(Store, id, multiSelect), "selectNode", id,
                 IF multiSelect THEN 1 ELSE 0)
     /\ UNCHANGED <<nextId, fresh, dragNode, resizeNode>>

SelectNodes ==
  \E ids \in {<<1, 2>>, <<UnknownId>>} :
     /\ NoCommit(selectNodes(Store, ids), "selectNodes", ids[1], 0)
     /\ UNCHANGED <<nextId, fresh, dragNode, resizeNode>>

ClearSelection ==
  /\ NoCommit(clearSelection(Store), "clearSelection", 0, 0)
  /\ UNCHANGED <<nextId, fresh, dragNode, resizeNode>>

DeleteSelected ==
  /\ Commit(deleteSelected(Store), "deleteSelected", 0, 0)
  /\ UNCHANGED <<nextId, fresh, dragNode, resizeNode>>

\* addEdge, endConnection and a click with the line tool push a snapshot
\* exactly when they add an edge; the edge's id is fresh, so the snapshot is
\* in no earlier history and the history differs exactly in that case
AddEdge ==
  \E sourceNodeId \in NodeArgs, targetNodeId \in NodeArgs :
     LET s == addEdge(Store, nextId, sourceNodeId, targetNodeId)
     IN /\ fresh < MaxIds
        /\ IF s.history # history
           THEN /\ Commit(s, "addEdge", sourceNodeId, targetNodeId)
                /\ nextId' = nextId + 1
                /\ fresh' = fresh + 1
           ELSE /\ NoCommit(s, "addEdge", sourceNodeId, targetNodeId)
                /\ UNCHANGED <<nextId, fresh>>
        /\ UNCHANGED <<dragNode, resizeNode>>

SetTool ==
  \E k \in DOMAIN Tools :
     /\ NoCommit(setTool(Store, Tools[k]), "setTool", k, 0)
     /\ UNCHANGED <<nextId, fresh, dragNode, resizeNode>>

StartConnection ==
  \E nodeId \in NodeIdsOf(nodes) :
     /\ NoCommit(startConnection(Store, nodeId), "startConnection", nodeId, 0)
     /\ UNCHANGED <<nextId, fresh, dragNode, resizeNode>>

EndConnection ==
  \E nodeId \in NodeIdsOf(nodes) :
     LET s == endConnection(Store, nextId, nodeId)
     IN /\ fresh < MaxIds
        /\ IF s.history # history
           THEN /\ Commit(s, "endConnection", connectionSource, nodeId)
                /\ nextId' = nextId + 1
                /\ fresh' = fresh + 1
           ELSE /\ NoCommit(s, "endConnection", connectionSource, nodeId)
                /\ UNCHANGED <<nextId, fresh>>
        /\ UNCHANGED <<dragNode, resizeNode>>

CancelConnection ==
  /\ NoCommit(cancelConnection(Store), "cancelConnection", 0, 0)
  /\ UNCHANGED <<nextId, fresh, dragNode, resizeNode>>

DeleteEdge ==
  \E id \in EdgeArgs :
     /\ Commit(deleteEdge(Store, id), "deleteEdge", id, 0)
     /\ UNCHANGED <<nextId, fresh, dragNode, resizeNode>>

\* a wheel step or a larger zoom about a pointer position; the guard keeps
\* the offset the zooms build up within MaxDrift
Zoom ==
  \E d \in DOMAIN ZoomDeltas, c \in DOMAIN Pivots :
     /\ Gt(Num(MaxDrift), MathAbs(viewport.x))
     /\ Gt(Num(MaxDrift), MathAbs(viewport.y))
     /\ NoCommit(zoom(Store, ZoomDeltas[d], Pivots[c]), "zoom", d, c)
     /\ UNCHANGED <<nextId, fresh, dragNode, resizeNode>>

\* a mouse move on the stage during a pan, the pointer PanDelta away from
\* where the last move left it
Pan ==
  /\ isPanning
  /\ Le(Num(0), viewport.x)
  /\ Gt(Num(MaxPan * 10), viewport.x)
  /\ NoCommit(pan(Store, PanDelta), "pan", 0, 0)
  /\ UNCHANGED <<nextId, fresh, dragNode, resizeNode>>

\* the right button pressed on the stage (1) or a button released (0)
SetPanning ==
  \E b \in BOOLEAN :
     /\ NoCommit(IF b THEN handleStageMouseDownRight(Store)
                 ELSE handleStageMouseUp(Store),
                 "setPanning", IF b THEN 1 ELSE 0, 0)
     /\ UNCHANGED <<nextId, fresh, dragNode, resizeNode>>

SetDragging ==
  \E b \in BOOLEAN :
     /\ NoCommit(setDragging(Store, b), "setDragging", IF b THEN 1 ELSE 0, 0)
     /\ UNCHANGED <<nextId, fresh, dragNode, resizeNode>>

SetViewport ==
  \E k \in DOMAIN Viewports :
     /\ NoCommit(setViewport(Store, Viewports[k]), "setViewport", k, 0)
     /\ UNCHANGED <<nextId, fresh, dragNode, resizeNode>>

Undo ==
  /\ SetStore(undo(Store))
  /\ op' = Op("undo", 0, 0, FALSE)
  /\ rt' = IF rt.phase = "commit" THEN [rt EXCEPT !.phase = "undo"]
           ELSE IF rt.phase = "edited"
           THEN [rt EXCEPT !.phase = "edited-undo"]
           ELSE [phase |-> "none", S |-> NoView]
  /\ UNCHANGED <<nextId, fresh, dragNode, resizeNode, commits>>

Redo ==
  /\ SetStore(redo(Store))
  /\ op' = Op("redo", 0, 0, FALSE)
  /\ rt' = IF rt.phase = "undo" THEN [rt EXCEPT !.phase = "redo"]
           ELSE IF rt.phase = "commit"
           THEN [rt EXCEPT !.phase = "commit-redo"]
           ELSE IF rt.phase = "edited-undo"
           THEN [rt EXCEPT !.phase = "edited-redo"]
           ELSE [phase |-> "none", S |-> NoView]
  /\ UNCHANGED <<nextId, fresh, dragNode, resizeNode, commits>>

Clear ==
  /\ Commit(clear(Store), "clear", 0, 0)
  /\ UNCHANGED <<nextId, fresh, dragNode, resizeNode>>

\* a diagram opened over the current one
LoadCanvas ==
  \E k \in DOMAIN Diagrams :
     /\ Commit(loadCanvas(Store, Diagrams[k].nodes, Diagrams[k].edges),
               "loadCanvas", k, 0)
     /\ UNCHANGED <<nextId, fresh, dragNode, resizeNode>>

\* Konva starts a drag on a rendered node; nodes are draggable in the
\* select tool only
DragStart ==
  \E i \in 1..Len(nodes) :
     /\ tool = "select"
     /\ dragNode = NoId
     /\ resizeNode = NoId
     /\ NoCommit(handleDragStart(Store, nodes[i]), "dragStart", nodes[i].id, 0)
     /\ dragNode' = nodes[i].id
     /\ UNCHANGED <<nextId, fresh, resizeNode>>

DragMove ==
  \E newPosition \in Positions :
     /\ dragNode # NoId
     /\ HasNode(nodes, dragNode)
     /\ NoCommit(handleDragMove(Store, FindNode(nodes, dragNode),
                                newPosition), "dragMove", dragNode, 0)
     /\ UNCHANGED <<nextId, fresh, dragNode, resizeNode>>

DragEnd ==
  /\ dragNode # NoId
  /\ Commit(handleDragEnd(Store), "dragEnd", dragNode, 0)
  /\ dragNode' = NoId
  /\ UNCHANGED <<nextId, fresh, resizeNode>>

\* A move event of a resize handle of a selected node: the first of a drag
\* of the handle, or a further one of the handle held.  The handles are
\* rendered for a selected node only.  The handle is a child of the node's
\* Group and sets no cancelBubble, so its events bubble to the Group.  With
\* the first move comes the drag's start, which reaches handleDragStart.
\* The handle's own handler calls handleResize, and the move then reaches
\* the Group's onDragMove, handleDragMove.  The Group has not moved and node
\* is the node as rendered before the event.
ResizeMove ==
  \E i \in 1..Len(nodes), index \in HandleIndexes, offset \in PointerOffsets :
     LET node == nodes[i]
         newPos == [x |-> node.position.x + offset.x,
                    y |-> node.position.y + offset.y]
         s0 == IF resizeNode = NoId THEN handleDragStart(Store, node)
               ELSE Store
         s1 == handleResize(s0, node,
                            resizeFromHandle(node, index, newPos))
         s2 == handleDragMove(s1, node, node.position)
     IN /\ Includes(selectedNodes, node.id)
        /\ dragNode = NoId
        /\ resizeNode \in {NoId, node.id}
        /\ NoCommit(s2, "resizeMove", node.id, 0)
        /\ resizeNode' = node.id
        /\ UNCHANGED <<nextId, fresh, dragNode>>

\* The pointer release that ends a drag of a resize handle, whatever ran
\* since the handle's last move.  ResizeHandles registers no handler for
\* it; the handle's event bubbles to the Group, whose onDragEnd is
\* handleDragEnd.
ResizeEnd ==
  /\ resizeNode # NoId
  /\ Commit(handleDragEnd(Store), "resizeEnd", resizeNode, 0)
  /\ resizeNode' = NoId
  /\ UNCHANGED <<nextId, fresh, dragNode>>

UpdateEdgeAnchors ==
  \E edgeId \in EdgeArgs :
     /\ Uncommitted(updateEdgeAnchors(Store, edgeId, AnchorA, AnchorB),
                    "updateEdgeAnchors", edgeId, 0)
     /\ UNCHANGED <<nextId, fresh, dragNode, resizeNode>>

StartSelectionBox ==
  \E k \in DOMAIN BoxPoints :
     /\ NoCommit(startSelectionBox(Store, BoxPoints[k]),
                 "startSelectionBox", k, 0)
     /\ UNCHANGED <<nextId, fresh, dragNode, resizeNode>>

UpdateSelectionBox ==
  \E k \in DOMAIN BoxPoints :
     /\ NoCommit(updateSelectionBox(Store, BoxPoints[k]),
                 "updateSelectionBox", k, 0)
     /\ UNCHANGED <<nextId, fresh, dragNode, resizeNode>>

\* the ghost record holds the corners of the box that was ended
EndSelectionBox ==
  /\ NoCommit(endSelectionBox(Store), "endSelectionBox",
              CornerIndex(selectionBox, selectionBox.start),
              CornerIndex(selectionBox, selectionBox.end))
  /\ UNCHANGED <<nextId, fresh, dragNode, resizeNode>>

\* the geometry engine asked for the anchor of a node towards an external
\* point: a pure function, which leaves the store as it is; the ghost
\* record holds the node, the index of the point and the point returned
GetNodeEdgeIntersection ==
  \E id \in NodeIdsOf(nodes), k \in DOMAIN ExternalPoints :
     /\ op' = Op("getNodeEdgeIntersection", id, k, FALSE)
               @@ [result |-> getNodeEdgeIntersection(FindNode(nodes, id),
                                                      ExternalPoints[k])]
     /\ rt' = [phase |-> "none", S |-> NoView]
     /\ UNCHANGED <<storeVars, nextId, fresh, dragNode, resizeNode, commits>>

\* a click on a rendered node; the ghost record holds the node and the
\* modifier key
NodeClick ==
  \E nodeId \in NodeIdsOf(nodes), multiSelect \in BOOLEAN :
     LET s == handleClick(Store, nextId, nodeId, multiSelect)
         key == IF multiSelect THEN 1 ELSE 0
     IN /\ IF s.history # history
           THEN /\ fresh < MaxIds
                /\ Commit(s, "nodeClick", nodeId, key)
                /\ nextId' = nextId + 1
                /\ fresh' = fresh + 1
           ELSE /\ NoCommit(s, "nodeClick", nodeId, key)
                /\ UNCHANGED <<nextId, fresh>>
        /\ UNCHANGED <<dragNode, resizeNode>>

\* a key pressed on the canvas; the ghost record holds the key's index and
\* the modifiers (1 for ctrl or meta, 2 for shift); Delete and Backspace
\* run deleteSelected, which pushes a snapshot whatever is selected
KeyDown ==
  \E k \in DOMAIN Keys, ctrlOrMeta \in BOOLEAN, shift \in BOOLEAN :
     LET s == handleKeyDown(Store, Keys[k], ctrlOrMeta, shift)
         mods == (IF ctrlOrMeta THEN 1 ELSE 0) + (IF shift THEN 2 ELSE 0)
     IN /\ IF Keys[k] \in {"Delete", "Backspace"}
           THEN Commit(s, "keyDown", k, mods)
           ELSE NoCommit(s, "keyDown", k, mods)
        /\ UNCHANGED <<nextId, fresh, dragNode, resizeNode>>

MoveNode ==
  \E id \in UpdateArgs :
     /\ Uncommitted(updateNode(Store, id, [position |-> P2]), "moveNode", id, 0)
     /\ UNCHANGED <<nextId, fresh, dragNode, resizeNode>>

InitAt(r) ==
  /\ InitOf(r.store)
  /\ nextId = r.nextId
  /\ dragNode = NoId
  /\ resizeNode = NoId
  /\ fresh = 0
  /\ commits = 0
  /\ op = Op("init", 0, 0, FALSE)
  /\ rt = [phase |-> "none", S |-> NoView]

Init == \E r \in Starts : InitAt(r)

Next ==
  \/ AddNode
  \/ AddTextNode
  \/ UpdateNode
  \/ DeleteNode
  \/ DeleteSelected
  \/ AddEdge
  \/ DeleteEdge
  \/ Undo
  \/ Redo
  \/ Clear

Spec == Init /\ [][Next]_vars

(***************************************************************************)
(* Drag gestures on the session's diagram, with undo and redo.             *)
(***************************************************************************)
InitDrag == InitAt(Session)

NextDrag ==
  \/ DragStart
  \/ DragMove
  \/ DragEnd
  \/ SetDragging
  \/ SetPanning
  \/ Pan
  \/ Undo
  \/ Redo

SpecDrag == InitDrag /\ [][NextDrag]_vars

(***************************************************************************)
(* The history at its capacity: a session of CapStart commits (one node    *)
(* added, then dragged back and forth), followed by further commits,       *)
(* undos and redos.                                                        *)
(***************************************************************************)
CapScript ==
  [k \in 1..CapStart |->
     IF k = 1 THEN [op |-> "addNode", type |-> "rectangle", position |-> P1]
     ELSE [op |-> "drag", id |-> 1,
           position |-> IF k % 2 = 0 THEN P2 ELSE P1]]

InitCap == InitAt(Replay(CapScript, CapStart))

NextCap ==
  \/ AddNode
  \/ DeleteNode
  \/ Clear
  \/ Undo
  \/ Redo

SpecCap == InitCap /\ [][NextCap]_vars

\* selecting in the session's diagram: clicks, the selection box, Delete
InitSelect == InitAt(Session)

NextSelect ==
  \/ SelectNode
  \/ SelectNodes
  \/ ClearSelection
  \/ DeleteSelected
  \/ DeleteNode
  \/ Undo
  \/ Redo

SpecSelect == InitSelect /\ [][NextSelect]_vars

\* editing the session's diagram through the store: direct updates of
\* nodes and anchors, deletions, undo and redo
InitEdit == InitAt(Session)

NextEdit ==
  \/ UpdateNode
  \/ MoveNode
  \/ UpdateEdgeAnchors
  \/ DeleteNode
  \/ DeleteEdge
  \/ Undo
  \/ Redo

SpecEdit == InitEdit /\ [][NextEdit]_vars

\* pointer gestures on the session's diagram: drags of a node and drags
\* of a resize handle
InitGesture == InitAt(Session)

NextGesture ==
  \/ DragStart
  \/ DragMove
  \/ DragEnd
  \/ ResizeMove
  \/ ResizeEnd
  \/ Undo
  \/ Redo

SpecGesture == InitGesture /\ [][NextGesture]_vars

\* connecting nodes of the session's diagram: the line tool, the
\* connection in progress, addEdge
InitConnect == InitAt(Session)

NextConnect ==
  \/ SetTool
  \/ StartConnection
  \/ EndConnection
  \/ CancelConnection
  \/ AddEdge
  \/ AddNode
  \/ DeleteEdge
  \/ Undo
  \/ Redo

SpecConnect == InitConnect /\ [][NextConnect]_vars

\* navigation: zooms, pan gestures and viewports set over the session's
\* diagram, starting at the default viewport, with undo and redo of the
\* session's commits in between
InitView == InitAt(Session)

NextView ==
  \/ Zoom
  \/ SetPanning
  \/ Pan
  \/ SetViewport
  \/ Undo
  \/ Redo

SpecView == InitView /\ [][NextView]_vars

\* the diagram cleared and diagrams opened over it, on the empty store and
\* on the session's diagram, the view moved before, with undo and redo
InitOpen == \E r \in {[store |-> InitialStore, nextId |-> 1], Session} :
               InitAt(r)

NextOpen ==
  \/ Clear
  \/ LoadCanvas
  \/ SetViewport
  \/ SelectNode
  \/ Undo
  \/ Redo

SpecOpen == InitOpen /\ [][NextOpen]_vars

\* rubber-band selection over the session's diagram
InitBox == InitAt(Session)

NextBox ==
  \/ StartSelectionBox
  \/ UpdateSelectionBox
  \/ EndSelectionBox
  \/ SelectNode
  \/ ClearSelection

SpecBox == InitBox /\ [][NextBox]_vars

\* building a diagram: shapes added to the empty store and to the session's
\* diagram, with selection changes, undo and redo in between
InitCreate == \E r \in {[store |-> InitialStore, nextId |-> 1], Session} :
                 InitAt(r)

NextCreate ==
  \/ AddShape
  \/ AddTextNode
  \/ ClearSelection
  \/ Undo
  \/ Redo

SpecCreate == InitCreate /\ [][NextCreate]_vars

\* the first commits on the initial store: every operation that pushes a
\* snapshot whatever the diagram holds, with undo and redo in between
InitFirst == InitAt([store |-> InitialStore, nextId |-> 1])

NextFirst ==
  \/ AddShape
  \/ AddTextNode
  \/ Clear
  \/ LoadCanvas
  \/ DeleteSelected
  \/ DeleteNode
  \/ DeleteEdge
  \/ Undo
  \/ Redo

SpecFirst == InitFirst /\ [][NextFirst]_vars

\* the geometry engine applied to the session's rectangle and to its
\* diamond, the diamond moved and resized, and to the ellipse
GeometryStarts ==
  {[store |-> updateNode(Session.store, 2,
                         [position |-> position, size |-> size]),
    nextId |-> Session.nextId] :
     position \in DiamondPositions, size \in DiamondSizes}
  \cup {EllipseSession}

InitGeometry == \E r \in GeometryStarts : InitAt(r)

NextGeometry == GetNodeEdgeIntersection

SpecGeometry == InitGeometry /\ [][NextGeometry]_vars

\* clicks on the nodes of the opened diagram with the toolbar's tools
InitClick == InitAt(Opened)

NextClick ==
  \/ SetTool
  \/ NodeClick
  \/ CancelConnection
  \/ Undo
  \/ Redo

SpecClick == InitClick /\ [][NextClick]_vars

\* keys pressed on the canvas over the session's diagram, while connecting
\* or dragging a selection box or neither
InitKeys == InitAt(Session)

NextKeys ==
  \/ KeyDown
  \/ StartConnection
  \/ CancelConnection
  \/ StartSelectionBox
  \/ EndSelectionBox

SpecKeys == InitKeys /\ [][NextKeys]_vars

\* changes from the property panel and anchor refreshes made after a
\* commit, then undo and redo: on the empty store, where the first commit
\* leaves a single snapshot, and on the session's diagram
InitRevert == \E r \in {[store |-> InitialStore, nextId |-> 1], Session} :
                 InitAt(r)

NextRevert ==
  \/ AddNode
  \/ DeleteEdge
  \/ UpdateNode
  \/ UpdateEdgeAnchors
  \/ Undo
  \/ Redo

SpecRevert == InitRevert /\ [][NextRevert]_vars

(***************************************************************************)
(* Properties.                                                             *)
(***************************************************************************)
\* the snapshot a commit leaves behind it: the entry before the current one
PrevSnapshot == history[historyIndex]
Incident(e, id) == e.sourceNodeId = id \/ e.targetNodeId = id

\* C1: in every reachable state each edge's source and target are ids of
\* nodes present in nodes
EdgesReferenceNodes ==
  \A i \in 1..Len(edges) :
     /\ HasNode(nodes, edges[i].sourceNodeId)
     /\ HasNode(nodes, edges[i].targetNodeId)

\* deleteNode has removed a node together with an edge of it, and an edge
\* between two other nodes is still there
CascadeLeftAnEdge ==
  /\ op.name = "deleteNode"
  /\ op.committed
  /\ historyIndex >= 1
  /\ \E i \in 1..Len(PrevSnapshot.edges) :
        Incident(PrevSnapshot.edges[i], op.a)
  /\ ~HasNode(nodes, op.a)
  /\ Len(edges) >= 1

\* C2: no two distinct edges connect the same unordered pair of nodes
UniquePairs ==
  \A i, j \in 1..Len(edges) :
     i # j => {edges[i].sourceNodeId, edges[i].targetNodeId}
              # {edges[j].sourceNodeId, edges[j].targetNodeId}

\* addEdge(a, b) was rejected while both nodes exist and the edge b -> a
\* does
ReverseEdgeRejected ==
  /\ op.name = "addEdge"
  /\ ~op.committed
  /\ op.a # op.b
  /\ HasNode(nodes, op.a)
  /\ HasNode(nodes, op.b)
  /\ \E i \in 1..Len(edges) :
        edges[i].sourceNodeId = op.b /\ edges[i].targetNodeId = op.a

\* C3: no reachable state contains an edge from a node to itself
NoSelfLoops ==
  \A i \in 1..Len(edges) : edges[i].sourceNodeId # edges[i].targetNodeId

\* C4: deleteNode(N) removes node N and every edge N is the source or the
\* target of, leaves every other node and edge as it was, and no edge left
\* references N
DeleteNodeCascades ==
  [][op'.name = "deleteNode" =>
       /\ nodes' = SelectSeq(nodes, LAMBDA n : n.id # op'.a)
       /\ edges' = SelectSeq(edges, LAMBDA e : ~Incident(e, op'.a))
       /\ \A i \in 1..Len(edges') : ~Incident(edges'[i], op'.a)]_vars

\* deleteNode has removed a node that had an edge, while another node and
\* another edge stay
DeleteNodeActed ==
  /\ op.name = "deleteNode"
  /\ historyIndex >= 1
  /\ \E i \in 1..Len(PrevSnapshot.nodes) : PrevSnapshot.nodes[i].id = op.a
  /\ \E i \in 1..Len(PrevSnapshot.edges) :
        Incident(PrevSnapshot.edges[i], op.a)
  /\ Len(nodes) = Len(PrevSnapshot.nodes) - 1
  /\ Len(edges) >= 1
  /\ Len(edges) < Len(PrevSnapshot.edges)

\* C5: every selected node id is the id of a node in nodes, and every
\* selected edge id the id of an edge in edges
SelectionValid ==
  /\ \A i \in 1..Len(selectedNodes) : HasNode(nodes, selectedNodes[i])
  /\ \A i \in 1..Len(selectedEdges) :
        selectedEdges[i] \in EdgeIdsOf(edges)

\* C6: every node is at least 20 wide and 20 high
MinimumSize ==
  \A i \in 1..Len(nodes) :
     nodes[i].size.width >= MinSize /\ nodes[i].size.height >= MinSize

\* C7: the history never holds more than 50 snapshots; a commit made with
\* 50 entries and the index at the last one drops the oldest entry, keeps
\* the others in order, appends the new snapshot and leaves the index at 49
HistoryCapacity ==
  [][/\ Len(history') <= HistoryLimit
     /\ (op'.committed /\ Len(history) = HistoryLimit
         /\ historyIndex = HistoryLimit - 1)
        => /\ Len(history') = HistoryLimit
           /\ SubSeq(history', 1, HistoryLimit - 1) = Tail(history)
           /\ history'[HistoryLimit] = [nodes |-> nodes', edges |-> edges',
                                        viewport |-> viewport']
           /\ historyIndex' = HistoryLimit - 1]_vars

\* a commit has evicted the session's first snapshot (the node at P1): the
\* oldest entry is now the session's second (the node at P2)
OldestEvicted ==
  /\ op.committed
  /\ Len(history) = HistoryLimit
  /\ historyIndex = HistoryLimit - 1
  /\ history[1].nodes[1].position = P2
  /\ history[HistoryLimit] = [nodes |-> nodes, edges |-> edges,
                              viewport |-> viewport]

\* C8: a commit made below the last entry discards the entries after the
\* current index, appends the new snapshot and moves the index to it, and
\* a redo right after a commit changes nothing
CommitTruncates ==
  [][/\ (op'.committed /\ historyIndex < Len(history) - 1)
        => /\ Len(history') = historyIndex + 2
           /\ SubSeq(history', 1, historyIndex + 1)
              = SubSeq(history, 1, historyIndex + 1)
           /\ history'[Len(history')] = [nodes |-> nodes', edges |-> edges',
                                         viewport |-> viewport']
           /\ historyIndex' = Len(history') - 1
     /\ (op.committed /\ op'.name = "redo") => UNCHANGED storeVars]_vars

\* from the session (three snapshots) one commit was made after an undo,
\* so that the history still has three entries and its last is new; then
\* redo was called
RedoAfterTruncatingCommit ==
  /\ rt.phase = "commit-redo"
  /\ op.name = "redo"
  /\ commits = 1
  /\ Len(history) = 3
  /\ historyIndex = 2
  /\ history[2] = Session.store.history[2]
  /\ history[3] # Session.store.history[3]

\* C9: undo with the index at 0 or the history empty, and redo with the
\* index at the last entry, leave every field of the store unchanged
BoundaryNoOp ==
  [][/\ (op'.name = "undo" /\ historyIndex <= 0) => UNCHANGED storeVars
     /\ (op'.name = "redo" /\ historyIndex >= Len(history) - 1)
        => UNCHANGED storeVars]_vars

\* undo was called with the index at 0 and a node selected; the selection
\* is still there, which an undo that moves the index would have cleared
UndoAtOldest ==
  /\ op.name = "undo"
  /\ historyIndex = 0
  /\ Len(history) >= 1
  /\ selectedNodes # <<>>

\* C10: after a commit, undo then redo give back the nodes, edges,
\* viewport and historyIndex the commit left
RoundTrip == rt.phase = "redo" => View(Store) = rt.S

\* C11: an undo or redo that moves the history index sets nodes and edges
\* to the snapshot at the new index and empties selectedNodes and
\* selectedEdges
RestoreClearsSelection ==
  [][(op'.name \in {"undo", "redo"} /\ historyIndex' # historyIndex)
       => /\ nodes' = history[historyIndex' + 1].nodes
          /\ edges' = history[historyIndex' + 1].edges
          /\ selectedNodes' = <<>>
          /\ selectedEdges' = <<>>]_vars

\* undo has stepped back over a commit that added and selected a node: the
\* node is gone from the canvas and the selection is empty
UndoDroppedSelectedNode ==
  /\ op.name = "undo"
  /\ rt.phase = "undo"
  /\ historyIndex + 2 <= Len(history)
  /\ Len(history[historyIndex + 2].nodes) = Len(nodes) + 1
  /\ nodes = history[historyIndex + 1].nodes
  /\ selectedNodes = <<>>

\* C12: updateNode and updateEdgeAnchors, called directly or from a move
\* event, after a commit or after an undo or redo, change no entry of
\* history
SnapshotsIndependent ==
  [][op'.name \in {"updateNode", "moveNode", "updateEdgeAnchors"}
       => history' = history]_vars

\* after an undo restored the second snapshot of the session, updateNode
\* changed a live node; the snapshot the nodes came from is as the session
\* left it
UpdatedAfterRestore ==
  /\ op.name \in {"updateNode", "moveNode"}
  /\ historyIndex = 1
  /\ Len(history) = 3
  /\ nodes # history[2].nodes
  /\ history = Session.store.history

\* the anchors the geometry engine gives edge e between its two nodes
EngineAnchors(e) ==
  getConnectionPoint(FindNode(nodes, e.sourceNodeId),
                     FindNode(nodes, e.targetNodeId))

\* C13: once a move or a resize of a node has settled, every edge's
\* sourceAnchor and targetAnchor are the geometry engine's anchor points of
\* its two nodes
AnchorsFollowGeometry ==
  (op.name \in {"moveNode", "updateNode"} /\ HasNode(nodes, op.a))
    => \A i \in 1..Len(edges) :
          (HasNode(nodes, edges[i].sourceNodeId)
           /\ HasNode(nodes, edges[i].targetNodeId))
            => /\ edges[i].sourceAnchor = EngineAnchors(edges[i]).source
               /\ edges[i].targetAnchor = EngineAnchors(edges[i]).target

\* C14: right after a successful addEdge(s, t) the new edge's sourceAnchor
\* is the geometry engine's boundary point of s towards t's center and its
\* targetAnchor the boundary point of t towards s's center
NewEdgeAnchorsOnBoundary ==
  (op.name = "addEdge" /\ op.committed /\ Len(edges) >= 1)
    => LET e == edges[Len(edges)]
       IN /\ e.sourceAnchor = EngineAnchors(e).source
          /\ e.targetAnchor = EngineAnchors(e).target

\* C15: addEdge with a missing source or target, or between two nodes an
\* edge already joins, leaves every field of the store unchanged
RejectedAddEdgeNoOp ==
  [][(/\ op'.name = "addEdge"
      /\ \/ ~HasNode(nodes, op'.a)
         \/ ~HasNode(nodes, op'.b)
         \/ existingConnection(edges, op'.a, op'.b))
       => UNCHANGED storeVars]_vars

\* addEdge was called while a connection was in progress, with an unknown
\* target or for a pair already joined; the connection is still in progress
RejectedWhileConnecting ==
  /\ op.name = "addEdge"
  /\ ~HasNode(nodes, op.b) \/ existingConnection(edges, op.a, op.b)
  /\ HasNode(nodes, op.a)
  /\ isConnecting
  /\ connectionSource # NoId
  /\ tool = "line"

\* C16: deleteNode, deleteEdge, updateNode and updateEdgeAnchors called
\* with an id of no node or edge change neither nodes, edges, the
\* selection, history nor historyIndex
AbsentIdNoOp ==
  [][(\/ op'.name \in {"deleteNode", "updateNode", "moveNode"}
         /\ ~HasNode(nodes, op'.a)
      \/ op'.name \in {"deleteEdge", "updateEdgeAnchors"}
         /\ op'.a \notin EdgeIdsOf(edges))
       => UNCHANGED <<nodes, edges, selectedNodes, selectedEdges,
                      history, historyIndex>>]_vars

\* C17: in a drag of a node or of a resize handle no move event changes
\* the history, and the release commits exactly one snapshot, which holds
\* the nodes as the gesture left them
GestureCommitsOnce ==
  [][/\ op'.name \in {"dragMove", "resizeMove"}
        => (history' = history /\ historyIndex' = historyIndex)
     /\ op'.name \in {"dragEnd", "resizeEnd"}
        => /\ Len(history') = historyIndex + 2
           /\ SubSeq(history', 1, historyIndex + 1)
              = SubSeq(history, 1, historyIndex + 1)
           /\ history'[Len(history')].nodes = nodes
           /\ historyIndex' = historyIndex + 1
           /\ nodes' = nodes]_vars

\* a resize handle of the session's diamond was dragged and released: the
\* release pushed the fourth snapshot, which holds the diamond at its new
\* size
ResizeCommitted ==
  /\ op.name = "resizeEnd"
  /\ op.committed
  /\ Len(history) = 4
  /\ historyIndex = 3
  /\ history[4].nodes = nodes
  /\ FindNode(nodes, op.a).size # DEFAULT_NODE_SIZE
  /\ FindNode(history[3].nodes, op.a).size = DEFAULT_NODE_SIZE

\* C18: updateNode(id, updates) changes only the updated fields of the
\* node with that id; the other nodes, the edges and their anchors, the
\* selection, the viewport, history and historyIndex stay as they were
UpdateNodeFrame ==
  [][op'.name \in {"updateNode", "moveNode"}
       => /\ Len(nodes') = Len(nodes)
          /\ \A i \in 1..Len(nodes) :
                /\ nodes[i].id # op'.a => nodes'[i] = nodes[i]
                /\ nodes'[i].id = nodes[i].id
                /\ nodes'[i].type = nodes[i].type
                /\ op'.name = "updateNode"
                   => nodes'[i].position = nodes[i].position
                /\ op'.name = "moveNode" => nodes'[i].size = nodes[i].size
          /\ UNCHANGED <<edges, selectedNodes, selectedEdges, viewport,
                         history, historyIndex>>]_vars

\* updateNode has resized a node of the session that has an edge: the node
\* has the new size, the edge and the history are the session's
ResizedOnlyTheNode ==
  /\ op.name = "updateNode"
  /\ \E i \in 1..Len(nodes) :
        /\ nodes[i].id = op.a
        /\ nodes[i].size = SmallSize
        /\ \E j \in 1..Len(edges) : Incident(edges[j], op.a)
  /\ edges = Session.store.edges
  /\ history = Session.store.history

\* C19: selectNode(id) without multiSelect empties the selection only when
\* id was the one selected node; in every other case, also when id was one
\* of several selected nodes, the selection becomes exactly id; no edge is
\* selected afterwards (stated for ids of nodes on the canvas)
SelectReplaces ==
  [][(/\ op'.name = "selectNode"
      /\ op'.b = 0
      /\ HasNode(nodes, op'.a)
      /\ \A k \in 1..Len(selectedNodes) : HasNode(nodes, selectedNodes[k]))
       => /\ selectedNodes' = IF selectedNodes = <<op'.a>> THEN <<>>
                              ELSE <<op'.a>>
          /\ selectedEdges' = <<>>]_vars

\* C20: deleteSelected removes every selected node, every selected edge
\* and every edge of a removed node, leaves the other nodes and edges as
\* they were, empties the selection and commits exactly one snapshot,
\* however many items it removed
DeleteSelectedCascades ==
  [][op'.name = "deleteSelected"
       => /\ nodes' = SelectSeq(nodes, LAMBDA n :
                         n.id \notin SetOf(selectedNodes))
          /\ edges' = SelectSeq(edges, LAMBDA e :
                         /\ e.id \notin SetOf(selectedEdges)
                         /\ e.sourceNodeId \notin SetOf(selectedNodes)
                         /\ e.targetNodeId \notin SetOf(selectedNodes))
          /\ selectedNodes' = <<>>
          /\ selectedEdges' = <<>>
          /\ history' = Append(SubSeq(history, 1, historyIndex + 1),
                               [nodes |-> nodes', edges |-> edges',
                                viewport |-> viewport'])
          /\ historyIndex' = historyIndex + 1]_vars

\* deleteSelected has removed one of the session's two nodes and with it
\* the edge between them, in one commit
SelectedNodeAndEdgeGone ==
  /\ op.name = "deleteSelected"
  /\ op.committed
  /\ Len(nodes) = 1
  /\ edges = <<>>
  /\ selectedNodes = <<>>
  /\ Len(history) = 4
  /\ historyIndex = 3
  /\ Len(PrevSnapshot.nodes) = 2
  /\ Len(PrevSnapshot.edges) = 1

\* C21: startConnection(a) enters the line tool with a as connection
\* source; endConnection(b) for another node b, both on the canvas and not
\* yet joined, appends exactly one edge a -> b, commits one snapshot and
\* goes back to the select tool with the connection cleared;
\* endConnection(a) on the source creates no edge and clears the connection
ConnectionProtocol ==
  [][/\ op'.name = "startConnection"
        => /\ tool' = "line"
           /\ isConnecting'
           /\ connectionSource' = op'.a
     /\ (/\ op'.name = "endConnection"
         /\ connectionSource # NoId
         /\ op'.b # connectionSource
         /\ HasNode(nodes, connectionSource)
         /\ HasNode(nodes, op'.b)
         /\ ~existingConnection(edges, connectionSource, op'.b))
        => /\ Len(edges') = Len(edges) + 1
           /\ SubSeq(edges', 1, Len(edges)) = edges
           /\ edges'[Len(edges')].sourceNodeId = connectionSource
           /\ edges'[Len(edges')].targetNodeId = op'.b
           /\ Len(history') = historyIndex + 2
           /\ historyIndex' = historyIndex + 1
           /\ history'[Len(history')].edges = edges'
           /\ tool' = "select"
           /\ ~isConnecting'
           /\ connectionSource' = NoId
     /\ (op'.name = "endConnection" /\ op'.b = connectionSource)
        => /\ edges' = edges
           /\ history' = history
           /\ historyIndex' = historyIndex
           /\ tool' = "select"
           /\ ~isConnecting'
           /\ connectionSource' = NoId]_vars

\* the second click of a connection has created an edge from the source to
\* the clicked node and left connecting mode
SecondClickConnected ==
  /\ op.name = "endConnection"
  /\ op.committed
  /\ op.a # op.b
  /\ Len(edges) >= 1
  /\ edges[Len(edges)].sourceNodeId = op.a
  /\ edges[Len(edges)].targetNodeId = op.b
  /\ history[historyIndex + 1].edges = edges
  /\ tool = "select"
  /\ ~isConnecting
  /\ connectionSource = NoId

\* C22: setTool(t), for each of the six tools, sets tool to t and clears a
\* connection in progress
SetToolClearsConnection ==
  [][op'.name = "setTool"
       => /\ tool' = Tools[op'.a]
          /\ ~isConnecting'
          /\ connectionSource' = NoId]_vars

\* C23: every zoom, whatever its delta, leaves a scale within [0.1, 3.0],
\* so that any sequence of zooms from the default viewport stays within it
ScaleWithinLimits ==
  [][op'.name = "zoom"
       => /\ viewport'.scale.tag = "num"
          /\ Le(MinScale, viewport'.scale)
          /\ Le(viewport'.scale, MaxScale)]_vars

\* a zoom out has been stopped at the lower limit
ZoomedOutToLimit ==
  /\ op.name = "zoom"
  /\ viewport.scale = MinScale
  /\ viewport.x # Num(0)

\* the screen point a world point is drawn at under viewport v, and the
\* world point under a screen point (Canvas.tsx handleStageMouseDown)
ToScreen(w, v) ==
  [x |-> Add(Mul(w.x, v.scale), v.x), y |-> Add(Mul(w.y, v.scale), v.y)]

ToWorld(p, v) ==
  [x |-> Div(Sub(p.x, v.x), v.scale), y |-> Div(Sub(p.y, v.y), v.scale)]

\* C24: after zoom(delta, p) the world point that was under the screen
\* point p is still drawn at p (to within a thousandth of a unit), whatever
\* the viewport's offset and scale
PivotInvariance ==
  [][op'.name = "zoom"
       => LET p == Pivots[op'.b]
              q == ToScreen(ToWorld(p, viewport), viewport')
              Near(a, b) == Gt(Rat(1, 1000), MathAbs(Sub(a, b)))
          IN Near(q.x, p.x) /\ Near(q.y, p.y)]_vars

\* C25: undo and redo leave the viewport as the pans and zooms since the
\* last commit have set it
NavigationNotUndoable ==
  [][op'.name \in {"undo", "redo"} => viewport' = viewport]_vars

\* C26: zoom and pan change the viewport only (nodes, edges, selection,
\* tool, history and historyIndex stay), and pan adds its delta to the
\* offset and keeps the scale
NavigationFrame ==
  [][op'.name \in {"zoom", "pan"}
       => /\ nodes' = nodes
          /\ edges' = edges
          /\ selectedNodes' = selectedNodes
          /\ selectedEdges' = selectedEdges
          /\ tool' = tool
          /\ history' = history
          /\ historyIndex' = historyIndex
          /\ op'.name = "pan"
               => /\ EqNum(viewport'.x, Add(viewport.x, PanDelta.x))
                  /\ EqNum(viewport'.y, Add(viewport.y, PanDelta.y))
                  /\ viewport'.scale = viewport.scale]_vars

\* a pan of a zoomed view of the diagram, a node selected
PannedZoomedView ==
  /\ op.name = "pan"
  /\ viewport.scale # Num(1)
  /\ viewport.x = Num(10)
  /\ selectedNodes # <<>>
  /\ nodes # <<>>

\* the closed rectangle spanned by a box's corners and a node's bounding
\* box share a point
BoxOverlapsNode(box, node) ==
  \E x \in {box.start.x, box.end.x, Num(node.position.x),
            Num(node.position.x + node.size.width)},
     y \in {box.start.y, box.end.y, Num(node.position.y),
            Num(node.position.y + node.size.height)} :
     /\ \/ Le(box.start.x, x) /\ Le(x, box.end.x)
        \/ Le(box.end.x, x) /\ Le(x, box.start.x)
     /\ \/ Le(box.start.y, y) /\ Le(y, box.end.y)
        \/ Le(box.end.y, y) /\ Le(y, box.start.y)
     /\ Le(Num(node.position.x), x)
     /\ Le(x, Num(node.position.x + node.size.width))
     /\ Le(Num(node.position.y), y)
     /\ Le(y, Num(node.position.y + node.size.height))

\* C27: endSelectionBox with a box selects exactly the nodes whose bounding
\* box overlaps the box's rectangle (bounds inclusive, either drag
\* direction), empties selectedEdges, removes the box and pushes no
\* snapshot; without a box it changes nothing
EndSelectionBoxSelects ==
  [][op'.name = "endSelectionBox"
       => IF selectionBox # NoBox
            THEN /\ SetOf(selectedNodes')
                      = {nodes[i].id : i \in {j \in DOMAIN nodes :
                             BoxOverlapsNode(selectionBox, nodes[j])}}
                 /\ Len(selectedNodes') = Cardinality(SetOf(selectedNodes'))
                 /\ selectedEdges' = <<>>
                 /\ selectionBox' = NoBox
                 /\ nodes' = nodes
                 /\ history' = history
                 /\ historyIndex' = historyIndex
            ELSE UNCHANGED storeVars]_vars

\* a box dragged up and left from the first node's corner to the origin has
\* been ended and selected that node, which it only touches
TouchingBoxSelected ==
  /\ op.name = "endSelectionBox"
  /\ op.a # 0
  /\ BoxPoints[op.a] = [x |-> Num(100), y |-> Num(100)]
  /\ BoxPoints[op.b] = [x |-> Num(0), y |-> Num(0)]
  /\ selectedNodes = <<1>>
  /\ selectionBox = NoBox

\* C28: clear empties nodes, edges and both selections, puts the viewport
\* back to the default and pushes one snapshot of that state; an undo right
\* after it, an earlier snapshot existing, restores that snapshot's nodes
\* and edges
ClearCommits ==
  [][/\ op'.name = "clear"
        => /\ nodes' = <<>>
           /\ edges' = <<>>
           /\ selectedNodes' = <<>>
           /\ selectedEdges' = <<>>
           /\ viewport' = DEFAULT_VIEWPORT
           /\ Len(history') = historyIndex + 2
           /\ historyIndex' = historyIndex + 1
           /\ SubSeq(history', 1, historyIndex + 1)
              = SubSeq(history, 1, historyIndex + 1)
           /\ history'[Len(history')] = [nodes |-> <<>>, edges |-> <<>>,
                                         viewport |-> DEFAULT_VIEWPORT]
     /\ (op.name = "clear" /\ op'.name = "undo" /\ historyIndex > 0)
        => /\ nodes' = PrevSnapshot.nodes
           /\ edges' = PrevSnapshot.edges]_vars

\* the session's diagram was cleared and the undo right after brought its
\* two nodes and its edge back
UndoAfterClear ==
  /\ op.name = "undo"
  /\ rt.phase = "undo"
  /\ rt.S.nodes = <<>>
  /\ Len(history) = 4
  /\ historyIndex = 2
  /\ Len(nodes) = 2
  /\ Len(edges) = 1

\* C29: addNode(type, position) appends one node of that type, of the
\* default size, at that position, leaves the nodes and edges it found as
\* they were, selects the new node alone with no edge selected, and pushes
\* one snapshot: from the empty store the first call makes the history one
\* long and the second two
AddNodeAppends ==
  [][op'.name = "addNode"
       => LET node == nodes'[Len(nodes')]
              input == ShapeInputs[op'.b]
          IN /\ Len(nodes') = Len(nodes) + 1
             /\ SubSeq(nodes', 1, Len(nodes)) = nodes
             /\ node.id = op'.a
             /\ ~HasNode(nodes, node.id)
             /\ node.type = input.type
             /\ node.position = input.position
             /\ node.size = [width |-> DefaultWidth, height |-> DefaultHeight]
             /\ edges' = edges
             /\ selectedNodes' = <<node.id>>
             /\ selectedEdges' = <<>>
             /\ Len(history') = historyIndex + 2
             /\ historyIndex' = historyIndex + 1
             /\ SubSeq(history', 1, historyIndex + 1)
                = SubSeq(history, 1, historyIndex + 1)
             /\ history'[Len(history')] = [nodes |-> nodes', edges |-> edges',
                                           viewport |-> viewport']
             /\ (history = <<>> => Len(history') = 1)
             /\ (Len(history) = 1 /\ historyIndex = 0 /\ Len(nodes) = 1
                   => Len(history') = 2)]_vars

\* the second addNode on the empty store: two nodes, two snapshots, the
\* first snapshot holding the first node alone, the second node selected
SecondNodeAdded ==
  /\ op.name = "addNode"
  /\ op.a = 2
  /\ fresh = 2
  /\ Len(nodes) = 2
  /\ Len(history) = 2
  /\ historyIndex = 1
  /\ Len(history[1].nodes) = 1
  /\ selectedNodes = <<2>>

\* C30: for a diamond and an external point other than its center, the
\* engine's anchor lies on the ray from the center through the point, where
\* |x - cx| / halfWidth + |y - cy| / halfHeight = 1; for the center itself
\* the anchor is the center
DiamondAnchorOnBoundary ==
  (op.name = "getNodeEdgeIntersection"
   /\ FindNode(nodes, op.a).type = "diamond")
    => LET node == FindNode(nodes, op.a)
           p == ExternalPoints[op.b]
           c == getNodeCenter(node)
           a == op.result
           halfWidth == Rat(node.size.width, 2)
           halfHeight == Rat(node.size.height, 2)
       IN IF p = c THEN a = c
          ELSE /\ EqNum(Add(Div(MathAbs(Sub(a.x, c.x)), halfWidth),
                            Div(MathAbs(Sub(a.y, c.y)), halfHeight)),
                        Num(1))
               /\ EqNum(Mul(Sub(a.x, c.x), Sub(p.y, c.y)),
                        Mul(Sub(a.y, c.y), Sub(p.x, c.x)))
               /\ Gt(Add(Mul(Sub(a.x, c.x), Sub(p.x, c.x)),
                         Mul(Sub(a.y, c.y), Sub(p.y, c.y))),
                     Num(0))

\* C31: while a connection is in progress a click on its source, or on a
\* node an edge already joins to the source, creates no edge and leaves the
\* store as it was: tool line, isConnecting true, connectionSource the source
ClickOnSourceIgnored ==
  [][(/\ op'.name = "nodeClick"
      /\ isConnecting
      /\ connectionSource # NoId
      /\ \/ op'.a = connectionSource
         \/ existingConnection(edges, connectionSource, op'.a))
       => /\ UNCHANGED storeVars
          /\ tool' = "line"
          /\ isConnecting'
          /\ connectionSource' = connectionSource]_vars

\* the source of a connection in progress has just been clicked again
SourceClickedAgain ==
  /\ op.name = "nodeClick"
  /\ isConnecting
  /\ op.a = connectionSource
  /\ tool = "line"

\* C32: cancelConnection sets tool select, isConnecting false and
\* connectionSource null and leaves nodes, edges and history alone, and the
\* Escape key pressed while a connection is in progress cancels it the same
\* way
EscapeCancels ==
  [][/\ op'.name = "cancelConnection"
        => /\ tool' = "select"
           /\ ~isConnecting'
           /\ connectionSource' = NoId
           /\ nodes' = nodes
           /\ edges' = edges
           /\ history' = history
           /\ historyIndex' = historyIndex
     /\ (op'.name = "keyDown" /\ Keys[op'.a] = "Escape" /\ isConnecting)
        => /\ tool' = "select"
           /\ ~isConnecting'
           /\ connectionSource' = NoId
           /\ nodes' = nodes
           /\ edges' = edges
           /\ history' = history]_vars

\* C33: when the two nodes of an edge have the same center, the geometry
\* engine's anchors and the anchors a drag move has written on the edge are
\* that center
DegenerateAnchorIsCenter ==
  \A i \in 1..Len(edges) :
     (/\ HasNode(nodes, edges[i].sourceNodeId)
      /\ HasNode(nodes, edges[i].targetNodeId)
      /\ getNodeCenter(FindNode(nodes, edges[i].sourceNodeId))
         = getNodeCenter(FindNode(nodes, edges[i].targetNodeId)))
       => LET center == getNodeCenter(FindNode(nodes, edges[i].sourceNodeId))
          IN /\ EngineAnchors(edges[i]).source = center
             /\ EngineAnchors(edges[i]).target = center
             /\ op.name = "dragMove"
                  => /\ edges[i].sourceAnchor = center
                     /\ edges[i].targetAnchor = center

\* C34: right after a committing operation the entry at historyIndex is
\* the history's last and equals the live nodes, edges and viewport
CommitSnapshotsLive ==
  op.committed
    => /\ historyIndex = Len(history) - 1
       /\ history[historyIndex + 1] = [nodes |-> nodes, edges |-> edges,
                                       viewport |-> viewport]

\* C35: in every reachable state isConnecting is true exactly when
\* connectionSource is set, and then the tool is line
ConnectionFlagsConsistent ==
  /\ isConnecting <=> connectionSource # NoId
  /\ isConnecting => tool = "line"

\* the line tool was picked again while a connection was in progress, which
\* leaves the connection in progress
LinePickedWhileConnecting ==
  /\ op.name = "setTool"
  /\ Tools[op.a] = "line"
  /\ isConnecting
  /\ connectionSource # NoId

\* C36: in every reachable state connectionSource is null or the id of a
\* node in nodes
ConnectionSourceIsNode ==
  connectionSource = NoId \/ HasNode(nodes, connectionSource)

\* C37: in every reachable state -1 <= historyIndex <= Len(history) - 1,
\* historyIndex is -1 exactly when the history is empty, and once it is 0
\* or more (a commit has been made) it stays so
HistoryIndexInRange ==
  /\ [](/\ -1 <= historyIndex
        /\ historyIndex <= Len(history) - 1
        /\ historyIndex = -1 <=> history = <<>>)
  /\ [][historyIndex >= 0 => historyIndex' >= 0]_vars

\* every commit of the session has been undone: the index is at the oldest
\* of its three entries
UndoneToOldest ==
  /\ op.name = "undo"
  /\ historyIndex = 0
  /\ Len(history) = 3
  /\ Len(nodes) = 1

\* C38 as stated: the empty diagram the store starts with is in no
\* snapshot; the first commit on the initial store leaves one entry, at
\* index 0; undo then changes nothing; and once there is a commit no undo
\* leaves the empty diagram
InitialDiagramNeverStored ==
  /\ [][/\ (history = <<>> /\ op'.committed)
           => /\ Len(history') = 1
              /\ historyIndex' = 0
        /\ (op'.name = "undo" /\ Len(history) = 1)
           => UNCHANGED storeVars
        /\ (op'.name = "undo" /\ history # <<>>)
           => (nodes' # <<>> \/ edges' # <<>>)]_vars
  /\ [](\A i \in 1..Len(history) :
          history[i].nodes # <<>> \/ history[i].edges # <<>>)

\* C38, amended: before the first commit the history is empty; the first
\* commit on the initial store leaves one entry, at index 0, holding the
\* diagram as the commit left it; undo then changes nothing; the history is
\* never empty again; and an undo leaves the empty diagram only if the
\* diagram was empty before it or a snapshot in the history holds the empty
\* diagram, which a commit left there
FirstCommitNotUndoable ==
  /\ [](commits = 0 => (history = <<>> /\ historyIndex = -1))
  /\ [][/\ (history = <<>> /\ op'.committed)
           => /\ Len(history') = 1
              /\ historyIndex' = 0
              /\ history'[1] = [nodes |-> nodes', edges |-> edges',
                                viewport |-> viewport']
        /\ (op'.name = "undo" /\ Len(history) = 1)
           => UNCHANGED storeVars
        /\ history # <<>> => (history' # <<>> /\ historyIndex' >= 0)
        /\ (op'.name = "undo" /\ nodes' = <<>> /\ edges' = <<>>)
           => \/ nodes = <<>> /\ edges = <<>>
              \/ \E i \in 1..Len(history) :
                    history[i].nodes = <<>> /\ history[i].edges = <<>>]_vars

\* undo was called after the first and only commit on the initial store;
\* the node that commit added is still there
UndoAfterFirstCommit ==
  /\ op.name = "undo"
  /\ nextId = 2
  /\ fresh = 1
  /\ Len(history) = 1
  /\ historyIndex = 0
  /\ Len(nodes) = 1

\* C39: when updateNode or updateEdgeAnchors changed the store after a
\* commit that was not the first snapshot of the history (historyIndex > 0
\* after it) and undo then redo followed, the nodes and edges are those of
\* that commit's snapshot and the index is back on it: the uncommitted
\* change is gone
UncommittedDiscarded ==
  (rt.phase = "edited-redo" /\ rt.S.historyIndex > 0)
    => /\ historyIndex = rt.S.historyIndex
       /\ nodes = history[rt.S.historyIndex + 1].nodes
       /\ edges = history[rt.S.historyIndex + 1].edges

\* on the session's diagram a node was added (the fourth snapshot), the
\* rectangle was then resized without a commit, and undo then redo were
\* called: the rectangle has its committed size again
ResizeDiscarded ==
  /\ rt.phase = "edited-redo"
  /\ op.name = "redo"
  /\ rt.S.historyIndex = 3
  /\ Len(nodes) = 3
  /\ nodes[1].size # SmallSize

\* C39 as stated, for every commit: after an uncommitted change, undo then
\* redo leave the nodes and edges of the last committed snapshot
UncommittedNeverSurvive ==
  rt.phase = "edited-redo"
    => /\ nodes = history[rt.S.historyIndex + 1].nodes
       /\ edges = history[rt.S.historyIndex + 1].edges

====
